---- MODULE Spec2Model ----
(***************************************************************************)
(* Run coordination layer of the dual-agent system: the stream decoder,    *)
(* the stream-then-poll run coordinator and the result normalisation of    *)
(* DualAgentSystem (dual_agent_system.py) and MathAgent (math_agent.py).   *)
(*                                                                         *)
(* Text is a sequence of one-character strings, a byte stream a sequence   *)
(* of byte tokens.  An ASCII byte and its character share one token; the   *)
(* two-byte UTF-8 encoding of U+00E9 is the byte pair <<"xC3", "xA9">>.    *)
(***************************************************************************)
EXTENDS Integers, Sequences, FiniteSets, TLC

VARIABLES
    \* ---- stream decoder (_process_stream_response) ----
    stream,        \* the bytes of the response body
    pos,           \* bytes already handed out by response.read
    buffer,        \* carry-over text of the last incomplete line
    stream_data,   \* decoded frames, in order
    dpc,           \* "reading" | "returned" | "raised" ("idle": not in use)
    exc,           \* exception that left the decoder, "none" if none
    nZeroReads,    \* calls of response.read that returned b""
    \* ---- one call of run_math_agent / solve_math_problem ----
    impl,          \* the class the call is made on
    pc,            \* "entry" | "stream" | "poll_submit" | "poll_loop" |
                   \* "finish" | "done" ("idle": not in use)
    thread_id,     \* the thread_id argument, then the local variable
    is_new_thread,
    requests,      \* every request issued, in order: [op, thread]
    nSleep,        \* calls of time.sleep
    waited,        \* the polling loop's counter
    stream_result, \* envelope of _run_on_thread_stream
    run_response,  \* the platform's answer to POST /runs
    run_data,      \* parsed body of that answer
    run_id,
    first_fetch,   \* _get_thread_state's first envelope in this call
    state_result,  \* _get_thread_state's latest envelope
    run_result,    \* what _run_on_thread handed back
    ret,           \* the envelope the public operation returned
    \* ---- one call of _extract_last_ai_message on its own ----
    messages,      \* the argument
    extracted,     \* what the call gave: [exc, text]
    epc,           \* "call" | "returned" | "raised" ("idle": not in use)
    \* ---- one call of run_dual_agent_workflow ----
    wpc,           \* "first_stage" | "loop" | "answer" | "returned"
                   \* ("idle": not in use)
    user_query,         \* the argument
    question_rounds,    \* the argument
    round,              \* i + 1 of "for i in range(question_rounds)"
    current_result,
    workflow_thread_id, \* the workflow's local thread_id
    first_result,       \* envelope of the first run_math_agent call
    generated_question,
    rounds_results,
    wret,               \* what the workflow returned
    qa_inputs,          \* inputs the question agent was invoked with
    qa_outcomes,        \* what the model invocation did in each of them
    calls,              \* one summary per finished run_math_agent call
    \* one transport operation called on its own
    transport_op,       \* the operation
    transport_response, \* what the platform answers to its request
    transport_envelope, \* the envelope it returned
    tpc,                \* "idle" | "call" | "returned"
    \* ---- several run_dual_agents coroutines on one asyncio event loop ----
    loop_running,       \* the task the loop's thread executes, "none" if none
    tasks,              \* per task: position and locals of its workflow
    platform_threads,   \* threads the platform has created so far
    \* ---- the question agent's graph and one invocation of its node ----
    graph,              \* the builder's nodes and edges, and "compiled"
    gpc,                \* "builder" | "add_edge" | "compile" | "START" |
                        \* the node's name | "END" | "raised" ("idle")
    node_state,         \* the state the node function is invoked with
    node_result         \* the dict the node function returned

dvars == <<stream, pos, buffer, stream_data, dpc, exc, nZeroReads>>

cvars == <<impl, pc, thread_id, is_new_thread, requests, nSleep, waited,
           stream_result, run_response, run_data, run_id, first_fetch,
           state_result, run_result, ret>>

evars == <<messages, extracted, epc>>

wvars == <<wpc, user_query, question_rounds, round, current_result,
           workflow_thread_id, first_result, generated_question, rounds_results,
           wret, qa_inputs, qa_outcomes, calls>>

tvars == <<transport_op, transport_response, transport_envelope, tpc>>

kvars == <<loop_running, tasks, platform_threads>>

gvars == <<graph, gpc, node_state, node_result>>

\* What the decoder and the coordinator leave alone.
ovars == <<evars, wvars, tvars, kvars, gvars>>

vars == <<dvars, cvars, ovars>>

----------------------------------------------------------------------------
\* Bounds of the model.

\* Pieces concatenated to form a response body.
MaxPieces == 3
\* Largest number of bytes one read hands out in the model.
MaxChunk == 3
\* Longest message list handed to the extractor on its own.
MaxMessages == 3
\* Largest question_rounds argument of the workflow.
MaxRounds == 3

\* The most rounds of a workflow whose termination is checked.
MaxFairRounds == 1

----------------------------------------------------------------------------
\* Program constants (config.py).

AGENT_STREAM_CHUNK_SIZE == 1024

STREAM_DATA_PREFIX == <<"d", "a", "t", "a", ":", " ">>

STREAM_DONE_MARKER == <<"[", "D", "O", "N", "E", "]">>

----------------------------------------------------------------------------
\* Sequence helpers.

Min(a, b) == IF a <= b THEN a ELSE b

Take(s, n) == SubSeq(s, 1, Min(n, Len(s)))

Drop(s, n) == SubSeq(s, n + 1, Len(s))

RECURSIVE Flatten(_)
Flatten(ss) == IF ss = <<>> THEN <<>> ELSE Head(ss) \o Flatten(Tail(ss))

----------------------------------------------------------------------------
\* bytes.decode('utf-8'), strict.

LeadByte == "xC3"
ContByte == "xA9"
CharE9 == "U+E9"

\* chunk.decode('utf-8'): the text, or a UnicodeDecodeError when the bytes
\* hold a lead byte without its continuation byte or a stray continuation.
Utf8Valid(bytes) ==
    \A i \in 1..Len(bytes) :
        /\ bytes[i] = LeadByte => (i < Len(bytes) /\ bytes[i + 1] = ContByte)
        /\ bytes[i] = ContByte => (i > 1 /\ bytes[i - 1] = LeadByte)

NotContByte(b) == b # ContByte

Utf8Decode(bytes) ==
    IF Utf8Valid(bytes)
    THEN LET heads == SelectSeq(bytes, NotContByte)
         IN [ok |-> TRUE,
             text |-> [i \in 1..Len(heads) |->
                          IF heads[i] = LeadByte THEN CharE9 ELSE heads[i]]]
    ELSE [ok |-> FALSE, text |-> <<>>]

----------------------------------------------------------------------------
\* str.split('\n'), str.strip(), str.startswith.

\* Position of the k-th newline of text; 0 for k = 0 and one past the end
\* when there are fewer than k.
NewlineAt(text, k) ==
    LET at == {i \in 1..Len(text) : text[i] = "\n"}
    IN  IF k = 0 THEN 0
        ELSE IF k > Cardinality(at) THEN Len(text) + 1
        ELSE CHOOSE i \in at : Cardinality({j \in at : j <= i}) = k

\* buffer.split('\n'): k newlines give k+1 pieces, the last one the text
\* after the last newline.
SplitLines(text) ==
    LET n == Cardinality({i \in 1..Len(text) : text[i] = "\n"})
    IN  [k \in 1..(n + 1) |->
            SubSeq(text, NewlineAt(text, k - 1) + 1, NewlineAt(text, k) - 1)]

Whitespace == {" ", "\t", "\r", "\n"}

\* str.strip(): from the first to the last character that is not whitespace.
Strip(s) ==
    LET ink == {i \in 1..Len(s) : s[i] \notin Whitespace}
    IN  IF ink = {} THEN <<>>
        ELSE SubSeq(s, CHOOSE i \in ink : \A j \in ink : i <= j,
                       CHOOSE i \in ink : \A j \in ink : j <= i)

StartsWith(s, p) == Len(s) >= Len(p) /\ SubSeq(s, 1, Len(p)) = p

----------------------------------------------------------------------------
\* JSON documents the platform answers with.  A document is named by a
\* one-token text (what json.loads is given and what str() shows); DocShape
\* gives what the code can observe of the parsed value.

\* Text values (answers, error messages) are sequences of string fragments.

\* A conversation turn.  rep "dict" is a parsed JSON object, rep "obj" an
\* object with attributes; type/content "<absent>" means no such key or
\* attribute.
Absent == "<absent>"

Msg(rep, type, content) == [rep |-> rep, type |-> type, content |-> content]

MsgsValues == <<Msg("dict", "human", "q"), Msg("dict", "ai", "a1")>>
MsgsAssistant == <<Msg("dict", "human", "q"), Msg("dict", "ai", "a2")>>
MsgsList == <<Msg("dict", "ai", "a3"), Msg("dict", "human", "q3")>>
MsgsNoAi == <<Msg("dict", "human", "q4")>>
MsgsEmptyAi == <<Msg("dict", "human", "q"), Msg("dict", "ai", "")>>

\* A JSON object with none of the keys the code looks at.
PlainDict(tok) ==
    [tok |-> tok, kind |-> "dict", error |-> FALSE, message |-> Absent,
     values |-> Absent, valuesMsgs |-> <<>>,
     assistant |-> Absent, assistantMsgs |-> <<>>,
     next |-> Absent, run_id |-> Absent, thread_id |-> Absent,
     last |-> Absent, lastMsgs |-> <<>>]

\* values / assistant: Absent (no key), "null" (key with a non-container
\* value), "nomsgs" (object without "messages"), "msgs" (object with it).
\* next: Absent, "empty" ([]), "pending" (a non-empty list).
\* run_id: Absent, "null", or the id.  last (lists only): Absent (empty
\* list), "null" (last item not a container), "nomsgs", "msgs".
Docs ==
    { [PlainDict("{error,message,values.messages}") EXCEPT
          !.error = TRUE, !.message = "boom",
          !.values = "msgs", !.valuesMsgs = MsgsValues],
      [PlainDict("{error}") EXCEPT !.error = TRUE],
      [PlainDict("{values.messages}") EXCEPT
          !.values = "msgs", !.valuesMsgs = MsgsValues],
      [PlainDict("{values.messages:[human,ai('')]}") EXCEPT
          !.values = "msgs", !.valuesMsgs = MsgsEmptyAi],
      [PlainDict("{values.messages,next:[]}") EXCEPT
          !.values = "msgs", !.valuesMsgs = MsgsNoAi, !.next = "empty"],
      [PlainDict("{values.messages,next:[agent]}") EXCEPT
          !.values = "msgs", !.valuesMsgs = MsgsValues, !.next = "pending"],
      [PlainDict("{values.messages,assistant.messages}") EXCEPT
          !.values = "msgs", !.valuesMsgs = MsgsValues,
          !.assistant = "msgs", !.assistantMsgs = MsgsAssistant],
      [PlainDict("{values:{},assistant.messages}") EXCEPT
          !.values = "nomsgs",
          !.assistant = "msgs", !.assistantMsgs = MsgsAssistant],
      [PlainDict("{values:null}") EXCEPT !.values = "null"],
      [PlainDict("{assistant.messages}") EXCEPT
          !.assistant = "msgs", !.assistantMsgs = MsgsAssistant],
      [PlainDict("{assistant:{}}") EXCEPT !.assistant = "nomsgs"],
      PlainDict("{}"),
      [PlainDict("[{messages}]") EXCEPT
          !.kind = "list", !.last = "msgs", !.lastMsgs = MsgsList],
      [PlainDict("[{}]") EXCEPT !.kind = "list", !.last = "nomsgs"],
      [PlainDict("[]") EXCEPT !.kind = "list"],
      [PlainDict("5") EXCEPT !.kind = "scalar"],
      [PlainDict("{run_id}") EXCEPT !.run_id = "r1"],
      [PlainDict("{run_id:null}") EXCEPT !.run_id = "null"],
      [PlainDict("{thread_id}") EXCEPT !.thread_id = "t1"] }

DocShape(tok) == CHOOSE d \in Docs : d.tok = tok

\* str(x) of a parsed value.
PyStr(tok) == <<"str(", tok, ")">>

----------------------------------------------------------------------------
\* json.loads on the text after the prefix.

Digits == {"1", "2", "3"}

\* One-token stand-ins for the text of a whole JSON document.
DocTokens == {d.tok : d \in Docs}

\* Characters that may stand unescaped inside a JSON string literal.
PlainChars == {"d", "a", "t", ":", " ", "k", "[", "D", "O", "N", "E", "]",
               "{", CharE9} \cup Digits

\* The JSON value of a text without surrounding whitespace, kept as its
\* canonical text; not ok is a JSONDecodeError.
JsonValue(t) ==
    IF t # <<>> /\ \A i \in 1..Len(t) : t[i] \in Digits
    THEN [ok |-> TRUE, value |-> t]
    ELSE IF Len(t) = 1 /\ t[1] \in DocTokens
    THEN [ok |-> TRUE, value |-> t]
    ELSE IF Len(t) >= 2 /\ t[1] = "\"" /\ t[Len(t)] = "\""
            /\ \A i \in 2..(Len(t) - 1) : t[i] \in PlainChars
    THEN [ok |-> TRUE, value |-> t]
    ELSE [ok |-> FALSE, value |-> <<>>]

\* json.loads(s): surrounding whitespace is ignored; what is left must be one
\* JSON value.
JsonLoads(s) == JsonValue(Strip(s))

----------------------------------------------------------------------------
\* The stream decoder: MathAgent._process_stream_response and the inline loop
\* of DualAgentSystem._run_on_thread_stream.

\* A decoder that lets the JSONDecodeError of a bad line escape.
OnJsonDecodeError_raise(sd) == [data |-> sd, exc |-> "JSONDecodeError"]

\* except json.JSONDecodeError: continue  -- the line is dropped, the frames
\* decoded so far are kept and nothing is raised.
OnJsonDecodeError(sd) == [data |-> sd, exc |-> "none"]

\* "stream_item = json.loads(data_str); stream_data.append(stream_item)"
\* inside the try block, r being what json.loads gave.
AppendParsed(sd, r) ==
    IF r.ok THEN [data |-> Append(sd, r.value), exc |-> "none"]
    ELSE OnJsonDecodeError(sd)

\* "if data_str and data_str != STREAM_DONE_MARKER: ..."
ProcessData(sd, data_str) ==
    IF data_str # <<>> /\ data_str # STREAM_DONE_MARKER
    THEN AppendParsed(sd, JsonLoads(data_str))
    ELSE [data |-> sd, exc |-> "none"]

\* "if line.startswith(STREAM_DATA_PREFIX): data_str = line[len(prefix):]"
ProcessStripped(sd, line) ==
    IF StartsWith(line, STREAM_DATA_PREFIX)
    THEN ProcessData(sd, Drop(line, Len(STREAM_DATA_PREFIX)))
    ELSE [data |-> sd, exc |-> "none"]

\* The body of "for line in lines[:-1]" for one line: "line = line.strip()"
\* and the rest.
ProcessLine(sd, raw) == ProcessStripped(sd, Strip(raw))

\* "for line in lines[:-1]": the lines in order, left at the first exception
\* (r is the outcome of the line just handled).
RECURSIVE ProcessLines(_, _)
RECURSIVE ProcessRest(_, _)
ProcessRest(r, rest) == IF r.exc # "none" THEN r ELSE ProcessLines(r.data, rest)

ProcessLines(sd, lines) ==
    IF lines = <<>> THEN [data |-> sd, exc |-> "none"]
    ELSE ProcessRest(ProcessLine(sd, Head(lines)), Tail(lines))

\* A decoder that handles what is left in the buffer as a last line.
AtStreamClose_flush(sd, buf) == ProcessLine(sd, buf).data

\* "if not chunk: break" and "return stream_data": the buffer is dropped.
AtStreamClose(sd, buf) == sd

\* A decoder that keeps the whole buffer instead of its last piece.
CarryOver_keepAll(buf, lines) == buf

\* buffer = lines[-1]: the text after the last newline is carried over.
CarryOver(buf, lines) == lines[Len(lines)]

\* The state of the loop after one chunk: the carry-over and the outcome r
\* of the chunk's complete lines.
ChunkResult(carry, r) == [buffer |-> carry, data |-> r.data, exc |-> r.exc]

\* "lines = buffer.split('\n'); buffer = lines[-1]; for line in lines[:-1]"
ProcessSplit(sd, buf, lines) ==
    ChunkResult(CarryOver(buf, lines),
                ProcessLines(sd, SubSeq(lines, 1, Len(lines) - 1)))

\* "buffer += chunk.decode('utf-8')", d being what decode gave.
ProcessDecoded(buf0, sd, d) ==
    IF ~d.ok
    THEN [buffer |-> buf0, data |-> sd, exc |-> "UnicodeDecodeError"]
    ELSE ProcessSplit(sd, buf0 \o d.text, SplitLines(buf0 \o d.text))

\* One pass of the while loop for a non-empty chunk.
DecodeChunk(buf0, sd, chunk) == ProcessDecoded(buf0, sd, Utf8Decode(chunk))

\* The whole function on the chunks the reads return (the zero-length read
\* that ends the loop comes after them): the frames, or the exception.
RECURSIVE ProcessFrom(_, _, _)
RECURSIVE ProcessNext(_, _)
ProcessNext(r, rest) ==
    IF r.exc # "none" THEN [ok |-> FALSE, frames |-> <<>>, exc |-> r.exc]
    ELSE ProcessFrom(r.buffer, r.data, rest)

ProcessFrom(buf0, sd, chunks) ==
    IF chunks = <<>>
    THEN [ok |-> TRUE, frames |-> AtStreamClose(sd, buf0), exc |-> "none"]
    ELSE ProcessNext(DecodeChunk(buf0, sd, Head(chunks)), Tail(chunks))

ProcessStreamResponse(chunks) == ProcessFrom(<<>>, <<>>, chunks)

----------------------------------------------------------------------------
\* Values of the call's variables before anything has happened.

NoFetch == [success |-> FALSE, result |-> <<"<none>">>, error |-> <<>>]

NoResponse == [kind |-> "none", status |-> 0, body |-> <<>>]

NoEnvelope ==
    [success |-> FALSE, result |-> <<>>, run_id |-> "<absent>",
     warning |-> FALSE, error |-> <<>>, raised |-> "none"]

\* raised names the exception that left the public operation, "none" when it
\* returned.
NoReturn ==
    [success |-> FALSE, result |-> <<>>, error |-> <<>>, thread_id |-> "None",
     is_new_thread |-> FALSE, full_response |-> <<>>, raised |-> "none"]

CallLocalsInit ==
    /\ is_new_thread = FALSE
    /\ requests = <<>>
    /\ nSleep = 0
    /\ waited = 0
    /\ stream_result = NoEnvelope
    /\ run_response = NoResponse
    /\ run_data = <<>>
    /\ run_id = "<absent>"
    /\ first_fetch = NoFetch
    /\ state_result = NoFetch
    /\ run_result = NoEnvelope
    /\ ret = NoReturn

\* The workflow's outcome while it runs. raised names the exception that left
\* run_dual_agent_workflow, "none" when it returned.
NoWorkflowReturn == [returned |-> FALSE, raised |-> "none"]

\* The workflow's variables while no workflow runs.
WorkflowIdle ==
    /\ wpc = "idle"
    /\ user_query = <<>>
    /\ question_rounds = 0
    /\ round = 0
    /\ current_result = <<>>
    /\ workflow_thread_id = "None"
    /\ first_result = NoReturn
    /\ generated_question = <<>>
    /\ rounds_results = <<>>
    /\ wret = NoWorkflowReturn
    /\ qa_inputs = <<>>
    /\ qa_outcomes = <<>>
    /\ calls = <<>>

\* The transport variables while no operation is called on its own.
NoTransportEnvelope == [success |-> FALSE, error |-> <<>>, result |-> <<>>]

TransportIdle ==
    /\ transport_op = "none"
    /\ transport_response = NoResponse
    /\ transport_envelope = NoTransportEnvelope
    /\ tpc = "idle"

\* The graph's variables while the question agent's node is not examined.
NoGraph == [nodes |-> {}, edges |-> {}, compiled |-> FALSE]

NoNodeState == [math_result |-> <<>>, first_agent_result |-> <<>>,
                messages |-> <<>>]

NoNodeResult == [returned |-> FALSE, messages |-> <<>>]

QuestionGraphIdle ==
    /\ graph = NoGraph
    /\ gpc = "idle"
    /\ node_state = NoNodeState
    /\ node_result = NoNodeResult

\* The event loop's variables while no task is scheduled on it.
EventLoopIdle ==
    /\ loop_running = "none"
    /\ tasks = <<>>
    /\ platform_threads = 0

\* The extractor's variables while it is not called on its own.
ExtractorIdle ==
    /\ messages = <<>>
    /\ extracted = [exc |-> "none", text |-> <<>>]
    /\ epc = "idle"

\* The coordinator's variables while only the decoder is exercised.
CoordinatorIdle ==
    /\ impl = "MathAgent"
    /\ pc = "idle"
    /\ thread_id = "None"
    /\ CallLocalsInit

----------------------------------------------------------------------------
\* Response bodies the decoder is run on.

NL == <<"\n">>

PieceFrame1 == STREAM_DATA_PREFIX \o <<"1">> \o NL
PieceFramePadded == <<" ">> \o STREAM_DATA_PREFIX \o <<"2", " ", "\r">> \o NL
PieceDone == STREAM_DATA_PREFIX \o STREAM_DONE_MARKER \o NL
PieceBadJson == STREAM_DATA_PREFIX \o <<"{">> \o NL
PieceEmptyData == STREAM_DATA_PREFIX \o NL
PieceUtf8 == STREAM_DATA_PREFIX \o <<"\"", LeadByte, ContByte, "\"">> \o NL
PieceKeepAlive == <<":", "k">> \o NL
PieceUnterminated == STREAM_DATA_PREFIX \o <<"3">>

Pieces == {PieceFrame1, PieceFramePadded, PieceDone, PieceBadJson,
           PieceEmptyData, PieceUtf8, PieceKeepAlive, PieceUnterminated}

Streams == {Flatten(ps) : ps \in UNION {[1..k -> Pieces] : k \in 0..MaxPieces}}

----------------------------------------------------------------------------
\* The decoder as a state machine, one read per step.

DecoderInit ==
    /\ stream \in Streams
    /\ pos = 0
    /\ buffer = <<>>
    /\ stream_data = <<>>
    /\ dpc = "reading"
    /\ exc = "none"
    /\ nZeroReads = 0
    /\ CoordinatorIdle
    /\ ExtractorIdle
    /\ WorkflowIdle
    /\ TransportIdle
    /\ EventLoopIdle
    /\ QuestionGraphIdle

\* chunk = response.read(AGENT_STREAM_CHUNK_SIZE) returned n > 0 bytes.
ReadChunk ==
    /\ dpc = "reading"
    /\ pos < Len(stream)
    /\ \E n \in 1..Min(Min(MaxChunk, AGENT_STREAM_CHUNK_SIZE), Len(stream) - pos) :
       \E r \in {DecodeChunk(buffer, stream_data, SubSeq(stream, pos + 1, pos + n))} :
            /\ pos' = pos + n
            /\ IF r.exc # "none"
               THEN /\ dpc' = "raised"
                    /\ exc' = r.exc
                    /\ UNCHANGED <<buffer, stream_data>>
               ELSE /\ buffer' = r.buffer
                    /\ stream_data' = r.data
                    /\ UNCHANGED <<dpc, exc>>
    /\ UNCHANGED <<stream, nZeroReads, cvars, ovars>>

\* chunk = response.read(...) returned b"": "if not chunk: break", then
\* "return stream_data".
ReadEof ==
    /\ dpc = "reading"
    /\ pos = Len(stream)
    /\ nZeroReads' = nZeroReads + 1
    /\ stream_data' = AtStreamClose(stream_data, buffer)
    /\ dpc' = "returned"
    /\ UNCHANGED <<stream, pos, buffer, exc, cvars, ovars>>

DecoderNext == ReadChunk \/ ReadEof

SpecDecoder == DecoderInit /\ [][DecoderNext]_vars

----------------------------------------------------------------------------
\* _extract_last_ai_message.

HasAttr(msg, name) ==
    /\ msg.rep = "obj"
    /\ IF name = "type" THEN msg.type # Absent ELSE msg.content # Absent

\* An extractor that hands back the string form of an object's content.
AttrContent_str(msg) ==
    IF msg.content # Absent
    THEN [exc |-> "none", text |-> PyStr(msg.content)]
    ELSE [exc |-> "AttributeError", text |-> <<>>]

\* "return msg.content" / "return last_msg.content"
AttrContent(msg) ==
    IF msg.content # Absent
    THEN [exc |-> "none", text |-> <<msg.content>>]
    ELSE [exc |-> "AttributeError", text |-> <<>>]

\* A lookup msg["content"] in place of msg.get("content", default).
DictContent_subscript(msg, default) ==
    IF msg.content # Absent
    THEN [exc |-> "none", text |-> <<msg.content>>]
    ELSE [exc |-> "KeyError", text |-> <<>>]

\* msg.get("content", default)
DictContent(msg, default) ==
    [exc |-> "none",
     text |-> IF msg.content # Absent THEN <<msg.content>> ELSE default]

\* "for msg in reversed(messages)" from index i downwards, then the
\* fallback on the last entry, then the fixed text.
RECURSIVE ScanForAi(_, _)
ScanForAi(msgs, i) ==
    IF i = 0
    THEN IF msgs # <<>>
         THEN LET last_msg == msgs[Len(msgs)]
              IN IF HasAttr(last_msg, "content") THEN AttrContent(last_msg)
                 ELSE IF last_msg.rep = "dict"
                 THEN DictContent(last_msg, PyStr("msg"))
                 ELSE [exc |-> "none", text |-> PyStr("msg")]
         ELSE [exc |-> "none", text |-> <<"No result generated">>]
    ELSE LET msg == msgs[i]
         IN IF HasAttr(msg, "type") /\ msg.type = "ai" THEN AttrContent(msg)
            ELSE IF msg.rep = "dict" /\ msg.type = "ai"
            THEN DictContent(msg, <<"">>)
            ELSE ScanForAi(msgs, i - 1)

\* An extractor that scans from the front and answers with the first "ai"
\* entry it meets.
RECURSIVE ScanForward(_, _)
ScanForward(msgs, i) ==
    IF i > Len(msgs) THEN ScanForAi(msgs, 0)
    ELSE IF (HasAttr(msgs[i], "type") \/ msgs[i].rep = "dict") /\ msgs[i].type = "ai"
    THEN ScanForAi(SubSeq(msgs, 1, i), i)
    ELSE ScanForward(msgs, i + 1)

ExtractLastAiMessage_firstAi(msgs) == ScanForward(msgs, 1)

\* An extractor whose fallback looks at the first entry, not the last.
ExtractLastAiMessage_firstEntry(msgs) ==
    IF \E i \in 1..Len(msgs) :
          (HasAttr(msgs[i], "type") \/ msgs[i].rep = "dict") /\ msgs[i].type = "ai"
    THEN ScanForAi(msgs, Len(msgs))
    ELSE ScanForAi(SubSeq(msgs, 1, Min(1, Len(msgs))), 0)

ExtractLastAiMessage(msgs) == ScanForAi(msgs, Len(msgs))

----------------------------------------------------------------------------
\* _extract_last_ai_message called on its own, on every message list up to
\* MaxMessages entries.

MessageTypes == {"ai", "human"}

MessageContents == {"a", "b"}

\* Entries in the two supported representations: objects with the type and
\* content attributes, mappings with any of the two keys.
SupportedEntries ==
    {Msg("obj", t, c) : t \in MessageTypes, c \in MessageContents}
    \cup {Msg("dict", t, c) : t \in MessageTypes \cup {Absent},
                              c \in MessageContents \cup {Absent}}

\* An object with a type but no content attribute is not a message.
Entries == SupportedEntries \cup {Msg("obj", "ai", Absent)}

MessageLists == UNION {[1..k -> Entries] : k \in 0..MaxMessages}

ExtractorInit ==
    /\ messages \in MessageLists
    /\ extracted = [exc |-> "none", text |-> <<>>]
    /\ epc = "call"
    /\ stream = <<>>
    /\ pos = 0
    /\ buffer = <<>>
    /\ stream_data = <<>>
    /\ dpc = "idle"
    /\ exc = "none"
    /\ nZeroReads = 0
    /\ CoordinatorIdle
    /\ WorkflowIdle
    /\ TransportIdle
    /\ EventLoopIdle
    /\ QuestionGraphIdle

\* The call returns a text.
ExtractReturn ==
    /\ epc = "call"
    /\ \E r \in {ExtractLastAiMessage(messages)} :
          /\ r.exc = "none"
          /\ extracted' = r
          /\ epc' = "returned"
    /\ UNCHANGED <<messages, dvars, cvars, wvars, tvars, kvars, gvars>>

\* The call is left by an exception.
ExtractRaise ==
    /\ epc = "call"
    /\ \E r \in {ExtractLastAiMessage(messages)} :
          /\ r.exc # "none"
          /\ extracted' = r
          /\ epc' = "raised"
    /\ UNCHANGED <<messages, dvars, cvars, wvars, tvars, kvars, gvars>>

ExtractorNext == ExtractReturn \/ ExtractRaise

SpecExtractor == ExtractorInit /\ [][ExtractorNext]_vars

----------------------------------------------------------------------------
\* Result normalisation: the "Handle different response types" block of
\* run_math_agent / solve_math_problem, on run_result["result"].

\* A normalisation that looks at "assistant" before "values".
DictBranch_assistantFirst(d) ==
    IF d.error THEN "error"
    ELSE IF d.assistant # Absent /\ d.assistant # "nomsgs" THEN "assistant"
    ELSE IF d.values # Absent THEN "values"
    ELSE "str"

\* The branch taken for a dict payload, in the order the code tests them.
DictBranch(d) ==
    IF d.error THEN "error"
    ELSE IF d.values # Absent THEN "values"
    ELSE IF d.assistant # Absent /\ d.assistant # "nomsgs" THEN "assistant"
    ELSE "str"

\* What the code can observe of a parsed value: a document's shape, or a
\* bare number or string.
ShapeOf(value) ==
    IF Len(value) = 1 /\ value[1] \in DocTokens THEN DocShape(value[1])
    ELSE [PlainDict("scalar") EXCEPT !.kind = "scalar"]

\* last_ai_message, or the exception the block raises.
NormalizeResult(value) ==
    LET d == ShapeOf(value)
    IN  IF d.kind = "dict"
        THEN CASE DictBranch(d) = "error" ->
                    [exc |-> "none",
                     text |-> <<"Platform error: ">> \o
                              (IF d.message # Absent THEN <<d.message>>
                               ELSE PyStr(d.tok))]
               [] DictBranch(d) = "values" ->
                    IF d.values = "null"
                    THEN [exc |-> "TypeError", text |-> <<>>]
                    ELSE IF d.values = "msgs"
                    THEN ExtractLastAiMessage(d.valuesMsgs)
                    ELSE [exc |-> "none", text |-> PyStr("values")]
               [] DictBranch(d) = "assistant" ->
                    IF d.assistant = "null"
                    THEN [exc |-> "TypeError", text |-> <<>>]
                    ELSE ExtractLastAiMessage(d.assistantMsgs)
               [] OTHER -> [exc |-> "none", text |-> PyStr(d.tok)]
        ELSE IF d.kind = "list" /\ d.last # Absent
        THEN IF d.last = "null" THEN [exc |-> "TypeError", text |-> <<>>]
             ELSE IF d.last = "msgs" THEN ExtractLastAiMessage(d.lastMsgs)
             ELSE [exc |-> "none", text |-> PyStr("last_item")]
        ELSE [exc |-> "none", text |-> PyStr(d.tok)]

----------------------------------------------------------------------------
\* Program constants of the coordinator (config.py).

AGENT_MAX_WAIT_TIME == 30
AGENT_CHECK_INTERVAL == 2
HTTP_SUCCESS_STATUS == 200

Impls == {"DualAgentSystem", "MathAgent"}

\* Python's None as a thread id.
NoThread == "None"

----------------------------------------------------------------------------
\* What the platform may answer to one request: a network exception, or a
\* status with a body.

Exception == [kind |-> "exception", status |-> 0, body |-> <<>>]

Response(status, body) == [kind |-> "response", status |-> status, body |-> body]

MalformedBody == <<"{">>

\* Answers with the given bodies under the success status, and error statuses.
HttpResponses(bodies) ==
    {Exception, Response(201, <<"created">>), Response(500, <<"oops">>)}
    \cup {Response(HTTP_SUCCESS_STATUS, b) : b \in bodies \cup {MalformedBody}}

ThreadResponses == HttpResponses({<<"{thread_id}">>, <<"{}">>, <<"[]">>})

RunResponses ==
    HttpResponses({<<"{run_id}">>, <<"{run_id:null}">>, <<"{}">>, <<"[]">>})

StateBodies ==
    {<<d.tok>> : d \in {x \in Docs : x.run_id = Absent /\ x.thread_id = Absent}}

StateResponses == HttpResponses(StateBodies)

\* json.loads(...) of a decoded body, j being what json.loads gave.
ParsedJson(j) ==
    IF j.ok THEN [exc |-> "none", value |-> j.value]
    ELSE [exc |-> "JSONDecodeError", value |-> <<>>]

\* data.decode("utf-8") gave d.
ParseDecoded(d) ==
    IF ~d.ok THEN [exc |-> "UnicodeDecodeError", value |-> <<>>]
    ELSE ParsedJson(JsonLoads(d.text))

\* json.loads(data.decode("utf-8"))
ParseBody(body) == ParseDecoded(Utf8Decode(body))

StatusText(resp) == ToString(resp.status)

\* _make_http_request under the success status, p being the parsed body.
HttpSuccessEnvelope(p) ==
    IF p.exc = "none"
    THEN [success |-> TRUE, data |-> p.value, error |-> <<>>]
    ELSE IF p.exc = "JSONDecodeError"
    THEN [success |-> FALSE, data |-> <<>>,
          error |-> <<"Invalid JSON response: ", p.exc>>]
    ELSE [success |-> FALSE, data |-> <<>>,
          error |-> <<"Request failed: ", p.exc>>]

\* MathAgent._make_http_request: the success/error envelope of one request.
MakeHttpRequest(resp) ==
    IF resp.kind = "exception"
    THEN [success |-> FALSE, data |-> <<>>, error |-> <<"Request failed: ", "exception">>]
    ELSE IF resp.status = HTTP_SUCCESS_STATUS
    THEN HttpSuccessEnvelope(ParseBody(resp.body))
    ELSE [success |-> FALSE, data |-> <<>>,
          error |-> <<"HTTP ", StatusText(resp), ": ">> \o resp.body]

\* DualAgentSystem's inline code under status 200, p being the parsed body.
InlineSuccessEnvelope(p, excPrefix) ==
    IF p.exc = "none"
    THEN [success |-> TRUE, data |-> p.value, error |-> <<>>]
    ELSE [success |-> FALSE, data |-> <<>>, error |-> <<excPrefix, p.exc>>]

\* The inline request code of DualAgentSystem: status test, json.loads, and
\* the method's "except Exception" with its own message prefix.
InlineRequest(resp, failPrefix, excPrefix) ==
    IF resp.kind = "exception"
    THEN [success |-> FALSE, data |-> <<>>, error |-> <<excPrefix, "exception">>]
    ELSE IF resp.status = 200
    THEN InlineSuccessEnvelope(ParseBody(resp.body), excPrefix)
    ELSE [success |-> FALSE, data |-> <<>>,
          error |-> <<failPrefix, StatusText(resp), " - ">> \o resp.body]

\* _create_thread after the request, r being the request's envelope and d
\* the shape of its data.  data.get("thread_id") is None when the key is
\* missing, and an AttributeError when the body is not a JSON object.
ThreadEnvelope(cls, r, d) ==
    IF ~r.success
    THEN [success |-> FALSE, raised |-> "none", thread_id |-> NoThread,
          error |-> IF cls = "MathAgent"
                    THEN <<"Failed to create thread: ">> \o r.error
                    ELSE r.error]
    ELSE IF d.kind # "dict"
    THEN IF cls = "MathAgent"
         THEN [success |-> FALSE, raised |-> "AttributeError",
               thread_id |-> NoThread, error |-> <<>>]
         ELSE [success |-> FALSE, raised |-> "none", thread_id |-> NoThread,
               error |-> <<"Exception creating thread: ", "AttributeError">>]
    ELSE [success |-> TRUE, raised |-> "none", error |-> <<>>,
          thread_id |-> IF d.thread_id = Absent THEN NoThread ELSE d.thread_id]

ThreadEnvelopeOf(cls, r) == ThreadEnvelope(cls, r, ShapeOf(r.data))

\* _create_thread: the envelope, or (raised) the exception that leaves it.
CreateThread(cls, resp) ==
    ThreadEnvelopeOf(cls,
        IF cls = "MathAgent" THEN MakeHttpRequest(resp)
        ELSE InlineRequest(resp, "Failed to create thread: ",
                           "Exception creating thread: "))

\* _get_thread_state after the request, r being the request's envelope.
StateEnvelope(cls, r) ==
    IF r.success
    THEN [success |-> TRUE, result |-> r.data, error |-> <<>>]
    ELSE [success |-> FALSE, result |-> <<>>,
          error |-> IF cls = "MathAgent"
                    THEN <<"Failed to get thread state: ">> \o r.error
                    ELSE r.error]

\* _get_thread_state: {"success": True, "result": ...} or a failure envelope.
GetThreadState(cls, resp) ==
    StateEnvelope(cls,
        IF cls = "MathAgent" THEN MakeHttpRequest(resp)
        ELSE InlineRequest(resp, "Failed to get thread state: ",
                           "Exception getting thread state: "))

----------------------------------------------------------------------------
\* The run coordinator: _run_on_thread_stream, _run_on_thread (with
\* _run_on_thread_polling and _wait_for_completion in MathAgent).

\* The envelope _run_on_thread hands back; raised names an exception that
\* leaves it instead (MathAgent has no try block around its polling path).
RunEnvelope(success, result, rid, warning, error) ==
    [success |-> success, result |-> result, run_id |-> rid,
     warning |-> warning, error |-> error, raised |-> "none"]

RunRaised(e) ==
    [success |-> FALSE, result |-> <<>>, run_id |-> Absent,
     warning |-> FALSE, error |-> <<>>, raised |-> e]

NoRunResult == RunEnvelope(FALSE, <<>>, Absent, FALSE, <<>>)

\* An exception inside the polling path: DualAgentSystem._run_on_thread
\* catches it, MathAgent lets it go up to solve_math_problem.
PollingException(cls, e) ==
    IF cls = "MathAgent" THEN RunRaised(e)
    ELSE RunEnvelope(FALSE, <<>>, Absent, FALSE,
                     <<"Exception running on thread: ", e>>)

\* Answers to the streaming submission: the body comes as a list of chunks.
StreamAnswer(kind, status, chunks) ==
    [kind |-> kind, status |-> status, chunks |-> chunks]

DataLine(tok) == STREAM_DATA_PREFIX \o <<tok>> \o NL

StreamChunkLists ==
    {<<>>, <<PieceKeepAlive \o PieceDone>>, <<PieceBadJson>>,
     <<DataLine("{}"), DataLine("{assistant.messages}") \o PieceDone>>,
     <<Take(DataLine("{values.messages}"), 3), Drop(DataLine("{values.messages}"), 3)>>,
     <<STREAM_DATA_PREFIX \o <<"\"", LeadByte>>, <<ContByte, "\"">> \o NL>>}
    \cup {<<DataLine(b[1]) \o PieceDone>> : b \in StateBodies}

StreamResponses ==
    {StreamAnswer("exception", 0, <<>>), StreamAnswer("response", 500, <<>>),
     StreamAnswer("response", 201, <<>>)}
    \cup {StreamAnswer("response", HTTP_SUCCESS_STATUS, c) : c \in StreamChunkLists}

\* The answers the platform gives while a whole workflow runs: a selection
\* with every outcome of a call in it (thread creation failing, succeeding
\* with and without an id; the stream failing, giving no frame, a final
\* state, a platform error, an answer with empty content, a payload the
\* normalisation raises on; the run
\* creation failing, with and without run id; a state fetch pending,
\* complete).
WorkflowThreadResponses ==
    {Exception, Response(HTTP_SUCCESS_STATUS, <<"{thread_id}">>),
     Response(HTTP_SUCCESS_STATUS, <<"{}">>)}

WorkflowStreamResponses ==
    {StreamAnswer("exception", 0, <<>>),
     StreamAnswer("response", HTTP_SUCCESS_STATUS, <<>>),
     StreamAnswer("response", HTTP_SUCCESS_STATUS,
                  <<DataLine("{values.messages}") \o PieceDone>>),
     StreamAnswer("response", HTTP_SUCCESS_STATUS,
                  <<DataLine("{error,message,values.messages}")>>),
     StreamAnswer("response", HTTP_SUCCESS_STATUS,
                  <<DataLine("{values.messages:[human,ai('')]}")>>),
     StreamAnswer("response", HTTP_SUCCESS_STATUS, <<DataLine("{values:null}")>>)}

WorkflowRunResponses ==
    {Exception, Response(HTTP_SUCCESS_STATUS, <<"{run_id}">>),
     Response(HTTP_SUCCESS_STATUS, <<"{}">>)}

WorkflowStateResponses ==
    {Response(HTTP_SUCCESS_STATUS, <<"{values.messages,next:[agent]}">>),
     Response(HTTP_SUCCESS_STATUS, <<"{values.messages,next:[]}">>)}

\* The answers a request may get: any while one call is examined on its
\* own, the selection above inside a workflow.
InWorkflow == wpc # "idle"

ThreadAnswers == IF InWorkflow THEN WorkflowThreadResponses ELSE ThreadResponses

StreamAnswers == IF InWorkflow THEN WorkflowStreamResponses ELSE StreamResponses

RunAnswers == IF InWorkflow THEN WorkflowRunResponses ELSE RunResponses

StateAnswers == IF InWorkflow THEN WorkflowStateResponses ELSE StateResponses

\* An attempt that takes the first frame for the final state.
StreamEnvelope_firstFrame(sd) ==
    IF ~sd.ok
    THEN RunEnvelope(FALSE, <<>>, Absent, FALSE,
                     <<"Exception running stream on thread: ", sd.exc>>)
    ELSE IF sd.frames # <<>>
    THEN RunEnvelope(TRUE, sd.frames[1], Absent, FALSE, <<>>)
    ELSE RunEnvelope(FALSE, <<>>, Absent, FALSE,
                     <<"No data received from stream">>)

\* The end of _run_on_thread_stream, sd being what the decoder gave (its
\* exception is caught by the method's "except Exception").
StreamEnvelope(sd) ==
    IF ~sd.ok
    THEN RunEnvelope(FALSE, <<>>, Absent, FALSE,
                     <<"Exception running stream on thread: ", sd.exc>>)
    ELSE IF sd.frames # <<>>
    THEN RunEnvelope(TRUE, sd.frames[Len(sd.frames)], Absent, FALSE, <<>>)
    ELSE RunEnvelope(FALSE, <<>>, Absent, FALSE,
                     <<"No data received from stream">>)

\* _run_on_thread_stream after conn.request: the envelope it returns.
RunOnThreadStream(cls, resp) ==
    IF resp.kind = "exception"
    THEN RunEnvelope(FALSE, <<>>, Absent, FALSE,
                     <<"Exception running stream on thread: ", "exception">>)
    ELSE IF resp.status # HTTP_SUCCESS_STATUS
    THEN RunEnvelope(FALSE, <<>>, Absent, FALSE,
                     <<IF cls = "MathAgent" THEN "Stream request failed: "
                       ELSE "Failed to run stream on thread: ",
                       StatusText(resp), " - ">>)
    ELSE StreamEnvelope(ProcessStreamResponse(resp.chunks))

\* A loop that sleeps without counting the sleep.
WaitedAfterSleep_unchanged(w) == w

\* "time.sleep(check_interval); waited += check_interval"
WaitedAfterSleep(w) == w + AGENT_CHECK_INTERVAL

\* A coordinator that polls after a successful stream as well.
AfterStreamSuccess_alsoPolls == "poll_submit"

\* "if stream_result['success']: return stream_result"
AfterStreamSuccess == "finish"

\* A coordinator that tries the stream again after a failed stream.
AfterStreamFailure_retry == "stream"

\* "if stream_result['success']: return stream_result", else the fallback.
AfterStreamFailure == "poll_submit"

\* A coordinator that takes any run-creation answer as carrying a run id.
RunIdMissing_never(d) == FALSE

\* "if not run_id"
RunIdMissing(d) == d.run_id \in {Absent, "null"}

\* The fallback after the request, r being the request's envelope and d the
\* shape of its data: ok with the run data, or the envelope returned (or
\* exception raised) before any polling.
SubmitOutcome(cls, r, d) ==
    IF ~r.success
    THEN [ok |-> FALSE, run_data |-> <<>>, run_id |-> Absent,
          ret |-> RunEnvelope(FALSE, <<>>, Absent, FALSE,
                     IF cls = "MathAgent"
                     THEN <<"Failed to run on thread: ">> \o r.error
                     ELSE r.error)]
    ELSE IF d.kind # "dict"
    THEN [ok |-> FALSE, run_data |-> <<>>, run_id |-> Absent,
          ret |-> PollingException(cls, "AttributeError")]
    ELSE IF RunIdMissing(d)
    THEN [ok |-> FALSE, run_data |-> <<>>, run_id |-> Absent,
          ret |-> RunEnvelope(FALSE, <<>>, Absent, FALSE,
                              <<"No run_id returned from the API">>)]
    ELSE [ok |-> TRUE, run_data |-> r.data, run_id |-> d.run_id,
          ret |-> NoRunResult]

SubmitOutcomeOf(cls, r) == SubmitOutcome(cls, r, ShapeOf(r.data))

\* The non-streaming submission up to the polling loop.
SubmitRun(cls, resp) ==
    SubmitOutcomeOf(cls,
        IF cls = "MathAgent" THEN MakeHttpRequest(resp)
        ELSE InlineRequest(resp, "Failed to run on thread: ",
                           "Exception running on thread: "))

\* A poller that never sees pending steps.
NextIsPending_never(d) == FALSE

\* A poller that tests the presence of "next" only, not its content.
NextIsPending_keyOnly(d) == d.next # Absent

\* state_data["next"] is truthy.
NextIsPending(d) == d.next = "pending"

\* "if 'next' in state_data and state_data['next']": pending, complete, or
\* the TypeError of a membership test on a number.
CheckPending(value) ==
    LET d == ShapeOf(value)
    IN  IF d.kind = "scalar" THEN "TypeError"
        ELSE IF d.kind = "dict" /\ NextIsPending(d) THEN "pending"
        ELSE "complete"

\* A poller that gives up on the first state fetch that fails.
FetchCheck_failureEnds(st) ==
    IF st.success THEN CheckPending(st.result) ELSE "fetch failed"

\* "if state_result['success']: ..." inside the loop: what the loop makes of
\* one fetch; a failed fetch falls through to the sleep at the loop's end.
FetchCheck(st) == IF st.success THEN CheckPending(st.result) ELSE "failed"

\* A poller that creates the run again after every incomplete fetch.
AfterIncompleteFetch_resubmit == "poll_submit"

\* Where the loop goes after a failed fetch or a pending state (after the
\* sleep): back to the loop test.
AfterIncompleteFetch == "poll_loop"

\* A poller that fails on timeout.
TimeoutReturn_failure(final_state, rdata, rid) ==
    RunEnvelope(FALSE, <<>>, rid, FALSE, <<"Timeout waiting for completion">>)

\* The return after the loop: final_state.get("result", run_data) with the
\* timeout warning.
TimeoutReturn(final_state, rdata, rid) ==
    RunEnvelope(TRUE,
                IF final_state.success THEN final_state.result ELSE rdata,
                rid, TRUE, <<>>)

----------------------------------------------------------------------------
\* One call of run_math_agent (DualAgentSystem) / solve_math_problem
\* (MathAgent) as a state machine: one step per request sent.

\* How the code that holds a connection is left after conn.request: by the
\* exception the request raised, by the return under an error status, or
\* through the handling of the body (a return, or an exception raised while
\* the body is read and parsed).
ExitPath(resp) ==
    IF resp.kind = "exception" THEN "exception"
    ELSE IF resp.status # HTTP_SUCCESS_STATUS THEN "error status"
    ELSE "body"

\* A client that closes the connection on the paths that return only.
ReleasedOnExit_notOnException(cls, path) == path # "exception"

\* "finally: conn.close()" of every method of DualAgentSystem, and the
\* finally of MathAgent._http_connection under "with": the connection is
\* closed whatever the path.
ReleasedOnExit(cls, path) == TRUE

\* One connection with the one request sent on it; open tells whether the
\* connection has not been closed yet.
Request(op, thread, open) == [op |-> op, thread |-> thread, open |-> open]

\* The connection of a transport method, after the method was left.
Connection(cls, op, thread, resp) ==
    Request(op, thread, ~ReleasedOnExit(cls, ExitPath(resp)))

\* A coordinator that closes the run-creation connection before it polls.
RunConnection_closedBeforePolling(cls, thread, resp, polls) ==
    Connection(cls, "POST /runs", thread, resp)

\* The connection of the run creation: DualAgentSystem._run_on_thread keeps
\* it while it polls (its finally runs when the method is left), MathAgent's
\* _make_http_request has closed it before the polling starts.
RunConnection(cls, thread, resp, polls) ==
    IF cls = "DualAgentSystem" /\ polls
    THEN Request("POST /runs", thread, TRUE)
    ELSE Connection(cls, "POST /runs", thread, resp)

\* DualAgentSystem._run_on_thread is left from its polling loop by path.
LeavePolling(reqs, cls, path) ==
    IF cls = "MathAgent" THEN reqs
    ELSE [i \in 1..Len(reqs) |->
            IF reqs[i].op = "POST /runs"
            THEN [reqs[i] EXCEPT !.open = ~ReleasedOnExit(cls, path)]
            ELSE reqs[i]]

Count(op) == Cardinality({i \in 1..Len(requests) : requests[i].op = op})

nFetch == Count("GET /state")

\* The failure envelopes of the public operation.
FailureReturn(error, tid, new) ==
    [success |-> FALSE, result |-> <<>>, error |-> error, thread_id |-> tid,
     is_new_thread |-> new, full_response |-> <<>>, raised |-> "none"]

\* Without the outermost handler the exception leaves the operation.
ExceptReturn_reraise(e, tid) ==
    [FailureReturn(<<>>, tid, FALSE) EXCEPT !.raised = e]

\* "except Exception as e" of the public operation.
ExceptReturn(e, tid) == FailureReturn(<<e>>, tid, tid = NoThread)

Init ==
    /\ impl \in Impls
    /\ pc = "entry"
    /\ thread_id \in {NoThread, "t0"}
    /\ CallLocalsInit
    /\ ExtractorIdle
    /\ WorkflowIdle
    /\ TransportIdle
    /\ EventLoopIdle
    /\ QuestionGraphIdle
    /\ stream = <<>>
    /\ pos = 0
    /\ buffer = <<>>
    /\ stream_data = <<>>
    /\ dpc = "idle"
    /\ exc = "none"
    /\ nZeroReads = 0

\* "if thread_id is None: thread_result = self._create_thread() ..."
EnsureThread ==
    /\ pc = "entry"
    /\ IF thread_id = NoThread
       THEN \E resp \in ThreadAnswers :
              \E r \in {CreateThread(impl, resp)} :
                 /\ requests' = Append(requests,
                                        Connection(impl, "POST /threads", NoThread, resp))
                 /\ IF r.raised # "none"
                    THEN /\ ret' = ExceptReturn(r.raised, thread_id)
                         /\ pc' = "done"
                         /\ UNCHANGED <<thread_id, is_new_thread>>
                    ELSE IF ~r.success
                    THEN /\ ret' = FailureReturn(<<"Failed to create thread: ">> \o r.error,
                                                 NoThread, TRUE)
                         /\ pc' = "done"
                         /\ UNCHANGED <<thread_id, is_new_thread>>
                    ELSE /\ thread_id' = r.thread_id
                         /\ is_new_thread' = TRUE
                         /\ pc' = "stream"
                         /\ UNCHANGED ret
       ELSE /\ is_new_thread' = FALSE
            /\ pc' = "stream"
            /\ UNCHANGED <<thread_id, requests, ret>>
    /\ UNCHANGED <<impl, nSleep, waited, stream_result, run_response, run_data,
                   run_id, first_fetch, state_result, run_result, dvars, ovars>>

\* _run_on_thread: "stream_result = self._run_on_thread_stream(...)".
StreamAttempt ==
    /\ pc = "stream"
    /\ \E resp \in StreamAnswers :
         \E r \in {RunOnThreadStream(impl, resp)} :
            /\ requests' = Append(requests,
                                   Connection(impl, "POST /runs/stream", thread_id, resp))
            /\ stream_result' = r
            /\ IF r.success
               THEN /\ run_result' = r
                    /\ pc' = AfterStreamSuccess
               ELSE /\ pc' = AfterStreamFailure
                    /\ UNCHANGED run_result
    /\ UNCHANGED <<impl, thread_id, is_new_thread, nSleep, waited, run_response,
                   run_data, run_id, first_fetch, state_result, ret, dvars, ovars>>

\* The fallback's run creation: POST /threads/{id}/runs and the run_id test.
PollSubmit ==
    /\ pc = "poll_submit"
    /\ \E resp \in RunAnswers :
         \E r \in {SubmitRun(impl, resp)} :
            /\ requests' = Append(requests, RunConnection(impl, thread_id, resp, r.ok))
            /\ run_response' = resp
            /\ IF r.ok
               THEN /\ run_data' = r.run_data
                    /\ run_id' = r.run_id
                    /\ waited' = 0
                    /\ pc' = "poll_loop"
                    /\ UNCHANGED run_result
               ELSE /\ run_result' = r.ret
                    /\ pc' = "finish"
                    /\ UNCHANGED <<run_data, run_id, waited>>
    /\ UNCHANGED <<impl, thread_id, is_new_thread, nSleep, stream_result,
                   first_fetch, state_result, ret, dvars, ovars>>

\* One pass of "while waited < max_wait".
PollIteration ==
    /\ pc = "poll_loop"
    /\ waited < AGENT_MAX_WAIT_TIME
    /\ \E resp \in StateAnswers :
         \E st \in {GetThreadState(impl, resp)} :
         \E chk \in {FetchCheck(st)} :
            /\ requests' =
                  IF chk \in {"failed", "pending"}
                  THEN Append(requests, Connection(impl, "GET /state", thread_id, resp))
                  ELSE LeavePolling(
                           Append(requests,
                                  Connection(impl, "GET /state", thread_id, resp)),
                           impl, IF chk = "complete" THEN "return" ELSE "exception")
            /\ state_result' = st
            /\ first_fetch' = IF nFetch = 0 THEN st ELSE first_fetch
            /\ CASE chk \in {"failed", "pending"} ->
                      /\ nSleep' = nSleep + 1
                      /\ waited' = WaitedAfterSleep(waited)
                      /\ pc' = AfterIncompleteFetch
                      /\ UNCHANGED run_result
                 [] chk = "complete" ->
                      /\ run_result' = RunEnvelope(TRUE, st.result, run_id, FALSE, <<>>)
                      /\ pc' = "finish"
                      /\ UNCHANGED <<nSleep, waited>>
                 [] OTHER ->
                      /\ run_result' = PollingException(impl, chk)
                      /\ pc' = "finish"
                      /\ UNCHANGED <<nSleep, waited>>
    /\ UNCHANGED <<impl, thread_id, is_new_thread, stream_result, run_response,
                   run_data, run_id, ret, dvars, ovars>>

\* After the loop: "final_state = self._get_thread_state(thread_id)" and the
\* return with the warning.
PollTimeout ==
    /\ pc = "poll_loop"
    /\ ~(waited < AGENT_MAX_WAIT_TIME)
    /\ \E resp \in StateAnswers :
         \E final_state \in {GetThreadState(impl, resp)} :
            /\ requests' =
                  LeavePolling(
                      Append(requests,
                             Connection(impl, "GET /state", thread_id, resp)),
                      impl, "return")
            /\ state_result' = final_state
            /\ first_fetch' = IF nFetch = 0 THEN final_state ELSE first_fetch
            /\ run_result' = TimeoutReturn(final_state, run_data, run_id)
            /\ pc' = "finish"
    /\ UNCHANGED <<impl, thread_id, is_new_thread, nSleep, waited, stream_result,
                   run_response, run_data, run_id, ret, dvars, ovars>>

\* A coordinator that reports a platform error as a failed call.
NormalizedReturn_errorFails(n, tid, new, full) ==
    IF n.exc # "none" THEN ExceptReturn(n.exc, tid)
    ELSE IF n.text # <<>> /\ Head(n.text) = "Platform error: "
    THEN FailureReturn(n.text, tid, new)
    ELSE [success |-> TRUE, result |-> n.text, error |-> <<>>,
          thread_id |-> tid, is_new_thread |-> new, full_response |-> full,
          raised |-> "none"]

\* The success return, n being the normalised answer (or the exception the
\* normalisation raised, which "except Exception" turns into a failure).
NormalizedReturn(n, tid, new, full) ==
    IF n.exc # "none" THEN ExceptReturn(n.exc, tid)
    ELSE [success |-> TRUE, result |-> n.text, error |-> <<>>,
          thread_id |-> tid, is_new_thread |-> new, full_response |-> full,
          raised |-> "none"]

\* What the public operation returns once _run_on_thread has handed back rr
\* (or was left by an exception): the outermost handler's envelope, the
\* failure envelope, or the normalised answer.
PublicReturn(rr, tid, new) ==
    IF rr.raised # "none"
    THEN ExceptReturn(rr.raised, tid)
    ELSE IF ~rr.success
    THEN FailureReturn(<<"Failed to run math agent: ">> \o rr.error, tid, new)
    ELSE NormalizedReturn(NormalizeResult(rr.result), tid, new, rr.result)

\* Back in the public operation: "if not run_result['success']", the
\* normalisation of run_result["result"], and the return.
Finish ==
    /\ pc = "finish"
    /\ ret' = PublicReturn(run_result, thread_id, is_new_thread)
    /\ pc' = "done"
    /\ UNCHANGED <<impl, thread_id, is_new_thread, requests, nSleep, waited,
                   stream_result, run_response, run_data, run_id, first_fetch,
                   state_result, run_result, dvars, ovars>>

Next ==
    \/ EnsureThread
    \/ StreamAttempt
    \/ PollSubmit
    \/ PollIteration
    \/ PollTimeout
    \/ Finish

Spec == Init /\ [][Next]_vars

----------------------------------------------------------------------------
\* The transport operations called on their own: one operation of one class
\* on one answer of the platform.

TransportOps ==
    {"create_thread", "get_thread_state", "submit_run", "submit_run_stream"}

\* The request an operation sends.
TransportRequest(op) ==
    CASE op = "create_thread" -> "POST /threads"
      [] op = "get_thread_state" -> "GET /state"
      [] op = "submit_run" -> "POST /runs"
      [] op = "submit_run_stream" -> "POST /runs/stream"

TransportAnswers(op) ==
    CASE op = "create_thread" -> ThreadResponses
      [] op = "get_thread_state" -> StateResponses
      [] op = "submit_run" -> RunResponses
      [] op = "submit_run_stream" -> StreamResponses

\* The success flag, the error text and the "result" of what an operation
\* hands back (<<>> where it has no such key).
TransportEnvelopeOf(success, error, result) ==
    [success |-> success, error |-> error, result |-> result]

SubmitEnvelope(r) ==
    IF r.ok THEN TransportEnvelopeOf(TRUE, <<>>, <<>>)
    ELSE TransportEnvelopeOf(FALSE, r.ret.error, <<>>)

TransportCall(cls, op, resp) ==
    CASE op = "create_thread" ->
           TransportEnvelopeOf(CreateThread(cls, resp).success,
                               CreateThread(cls, resp).error, <<>>)
      [] op = "get_thread_state" ->
           TransportEnvelopeOf(GetThreadState(cls, resp).success,
                               GetThreadState(cls, resp).error,
                               GetThreadState(cls, resp).result)
      [] op = "submit_run" -> SubmitEnvelope(SubmitRun(cls, resp))
      [] op = "submit_run_stream" ->
           TransportEnvelopeOf(RunOnThreadStream(cls, resp).success,
                               RunOnThreadStream(cls, resp).error,
                               RunOnThreadStream(cls, resp).result)

TransportInit ==
    /\ impl \in Impls
    /\ transport_op \in TransportOps
    /\ transport_response \in TransportAnswers(transport_op)
    /\ transport_envelope = NoTransportEnvelope
    /\ tpc = "call"
    /\ pc = "idle"
    /\ thread_id = IF transport_op = "create_thread" THEN NoThread ELSE "t0"
    /\ CallLocalsInit
    /\ ExtractorIdle
    /\ WorkflowIdle
    /\ EventLoopIdle
    /\ QuestionGraphIdle
    /\ stream = <<>>
    /\ pos = 0
    /\ buffer = <<>>
    /\ stream_data = <<>>
    /\ dpc = "idle"
    /\ exc = "none"
    /\ nZeroReads = 0

\* The operation runs: one connection, one request, the envelope.
TransportReturn ==
    /\ tpc = "call"
    /\ requests' = Append(requests,
                          Connection(impl, TransportRequest(transport_op),
                                     thread_id, transport_response))
    /\ transport_envelope' = TransportCall(impl, transport_op, transport_response)
    /\ tpc' = "returned"
    /\ UNCHANGED <<impl, pc, thread_id, is_new_thread, nSleep, waited,
                   stream_result, run_response, run_data, run_id, first_fetch,
                   state_result, run_result, ret, transport_op,
                   transport_response, dvars, evars, wvars,
                   kvars, gvars>>

TransportNext == TransportReturn

SpecTransport == TransportInit /\ [][TransportNext]_vars

----------------------------------------------------------------------------
\* The local question agent as the workflow sees it:
\* generate_question_with_question_agent over question_agent_graph.

\* Python's None where a text is expected, and a key a dict does not have.
None == <<"<None>">>

NoKey == <<"<no key>">>

\* "if not math_result": the empty string.
IsEmptyText(text) == \A i \in 1..Len(text) : text[i] = ""

\* What the model invocation does: answer with a text, or raise; and the
\* graph invocation itself may raise before the node runs.
LlmOutcomes ==
    {[kind |-> "text", text |-> <<"Q">>],
     [kind |-> "text", text |-> <<"Error", " bars of what size?">>],
     [kind |-> "exception", text |-> <<>>],
     [kind |-> "graph_exception", text |-> <<>>]}

\* A handler that hands back the exception's own text.
GenerateQuestion_plainMessage(math_result, llm) ==
    IF IsEmptyText(math_result) THEN <<"Error: No mathematical result provided">>
    ELSE IF llm.kind = "text" THEN llm.text
    ELSE <<"exception">>

\* QuestionAgent.generate_question
GenerateQuestion(math_result, llm) ==
    IF IsEmptyText(math_result) THEN <<"Error: No mathematical result provided">>
    ELSE IF llm.kind = "text" THEN llm.text
    ELSE <<"Error generating question: ", "exception">>

\* A node that answers with the new message alone.
QuestionAgentNode_replacing(state_messages, math_result, llm) ==
    IF IsEmptyText(math_result) THEN state_messages
    ELSE <<Msg("obj", "human", GenerateQuestion(math_result, llm))>>

\* question_agent_node: the messages of the returned state.
QuestionAgentNode(state_messages, math_result, llm) ==
    IF IsEmptyText(math_result) THEN state_messages
    ELSE Append(state_messages,
                Msg("obj", "human", GenerateQuestion(math_result, llm)))

\* A fallback text that the workflow takes for a failed generation.
QuestionFrom_errorText(result_messages) ==
    IF result_messages # <<>>
    THEN result_messages[Len(result_messages)].content
    ELSE <<"Error", ": no question generated by question agent">>

\* The end of generate_question_with_question_agent, result_messages being
\* result["messages"]; the messages here are HumanMessage objects.
QuestionFrom(result_messages) ==
    IF result_messages # <<>>
    THEN result_messages[Len(result_messages)].content
    ELSE <<"No question generated by question agent">>

\* "except Exception as e" of generate_question_with_question_agent.
OnQuestionAgentException(e) ==
    [exc |-> "none",
     text |-> <<"Error in question agent: ", e, "\nTraceback: ", "traceback">>]

\* generate_question_with_question_agent: the graph is invoked with the
\* result and an empty message list; any exception becomes an Error text.
\* exc names the exception that left the operation, "none" when it returned.
GenerateQuestionWithQuestionAgent(first_agent_result, llm) ==
    IF llm.kind = "graph_exception"
    THEN OnQuestionAgentException("exception")
    ELSE [exc |-> "none",
          text |-> QuestionFrom(QuestionAgentNode(<<>>, first_agent_result, llm))]

\* A workflow that hands the question agent the conversation so far.
QuestionAgentInput_withHistory(query, result) ==
    [first_agent_result |-> result,
     messages |-> <<Msg("dict", "human", query)>>]

\* input_data of generate_question_with_question_agent: the result and an
\* empty message list; the workflow's query is not an argument of it.
QuestionAgentInput(query, result) ==
    [first_agent_result |-> result, messages |-> <<>>]

\* generated_question.startswith("Error"), on a text given by its fragments.
ErrorFragments ==
    {"Error", "Error: No mathematical result provided",
     "Error generating question: ", "Error in question agent: "}

\* A workflow that never takes a generated text for a failure.
StartsWithError_never(text) == FALSE

StartsWithError(text) == text # <<>> /\ Head(text) \in ErrorFragments

----------------------------------------------------------------------------
\* run_dual_agent_workflow as a state machine around the calls of
\* run_math_agent, whose steps are the coordinator's actions above.

\* The entries of rounds_results.
FailedRound(n, question, error) ==
    [round |-> n, generated_question |-> question, answer |-> None,
     error |-> error]

\* A record numbered by the loop's index i instead of i + 1.
SuccessRound_zeroBased(n, question, answer) ==
    [round |-> n - 1, generated_question |-> question, answer |-> answer,
     error |-> None]

\* The record of a round that went well.
SuccessRound(n, question, answer) ==
    [round |-> n, generated_question |-> question, answer |-> answer,
     error |-> None]

\* The workflow has no handler of its own: an exception of a call leaves it.
WorkflowRaised(e) == [returned |-> FALSE, raised |-> e]

\* The dict returned after the loop.
WorkflowResult(first, rounds) ==
    [returned |-> TRUE, raised |-> "none", error |-> NoKey,
     step1_math_result |-> first.result, question_rounds |-> rounds,
     step1_thread_id |-> <<first.thread_id>>,
     total_question_rounds |-> Len(rounds)]

\* A workflow that reports a failed first stage like a completed one.
FirstStageFailure_asCompleted(first) == WorkflowResult(first, <<>>)

\* The dict returned when the first stage failed.
FirstStageFailure(first) ==
    [returned |-> TRUE, raised |-> "none",
     error |-> <<"First math agent failed: ">> \o first.error,
     step1_math_result |-> None, question_rounds |-> <<>>,
     step1_thread_id |-> NoKey, total_question_rounds |-> -1]

\* What one finished call of run_math_agent did, for the record.
CallSummary(query, thread_arg) ==
    [query |-> query,
     thread_arg |-> thread_arg,
     success |-> ret.success,
     creates |-> Count("POST /threads"),
     run_threads |-> {requests[i].thread : i \in
                        {k \in 1..Len(requests) :
                            requests[k].op \in {"POST /runs/stream", "POST /runs"}}}]

\* The call's variables are gone once the call has returned.
CallLocalsReset ==
    /\ pc' = "idle"
    /\ thread_id' = NoThread
    /\ is_new_thread' = FALSE
    /\ requests' = <<>>
    /\ nSleep' = 0
    /\ waited' = 0
    /\ stream_result' = NoEnvelope
    /\ run_response' = NoResponse
    /\ run_data' = <<>>
    /\ run_id' = Absent
    /\ first_fetch' = NoFetch
    /\ state_result' = NoFetch
    /\ run_result' = NoEnvelope
    /\ ret' = NoReturn

\* A loop that never runs out of rounds.
MoreRounds_always(i, n) == TRUE

\* "for i in range(question_rounds)": there is a round after i rounds.
MoreRounds(i, n) == i < n

\* A workflow that keeps asking about the result it had.
NextResult_stale(current, answer) == current

\* "current_result = answer_result['result']"
NextResult(current, answer) == answer

\* The queries a workflow is started with.
UserQueries == {<<"What is 15 + 27?">>, <<"Calculate 10 * 20">>}

WorkflowInit ==
    /\ wpc = "first_stage"
    /\ user_query \in UserQueries
    /\ question_rounds \in 0..MaxRounds
    /\ round = 0
    /\ current_result = <<>>
    /\ workflow_thread_id = NoThread
    /\ first_result = NoReturn
    /\ generated_question = <<>>
    /\ rounds_results = <<>>
    /\ wret = NoWorkflowReturn
    /\ qa_inputs = <<>>
    /\ qa_outcomes = <<>>
    /\ calls = <<>>
    /\ impl = "DualAgentSystem"
    /\ pc = "entry"
    /\ thread_id = NoThread
    /\ CallLocalsInit
    /\ ExtractorIdle
    /\ TransportIdle
    /\ EventLoopIdle
    /\ QuestionGraphIdle
    /\ stream = <<>>
    /\ pos = 0
    /\ buffer = <<>>
    /\ stream_data = <<>>
    /\ dpc = "idle"
    /\ exc = "none"
    /\ nZeroReads = 0

\* A step of the run_math_agent call in progress.
MathAgentStep ==
    /\ wpc \in {"first_stage", "answer"}
    /\ Next

\* "first_result = await self.run_math_agent(user_query)" has returned: the
\* failure return, or the loop's variables (and the return at once when
\* question_rounds is 0).
FirstStageReturn ==
    /\ wpc = "first_stage"
    /\ pc = "done"
    /\ calls' = Append(calls, CallSummary(user_query, NoThread))
    /\ IF ret.raised # "none"
       THEN /\ wret' = WorkflowRaised(ret.raised)
            /\ wpc' = "raised"
            /\ UNCHANGED <<first_result, current_result, workflow_thread_id, round>>
       ELSE IF ~ret.success
       THEN /\ first_result' = ret
            /\ wret' = FirstStageFailure(ret)
            /\ wpc' = "returned"
            /\ UNCHANGED <<current_result, workflow_thread_id, round>>
       ELSE /\ first_result' = ret
            /\ current_result' = ret.result
            /\ workflow_thread_id' = ret.thread_id
            /\ round' = 1
            /\ IF MoreRounds(0, question_rounds)
               THEN wpc' = "loop" /\ UNCHANGED wret
               ELSE wpc' = "returned" /\ wret' = WorkflowResult(ret, <<>>)
    /\ CallLocalsReset
    /\ UNCHANGED <<impl, user_query, question_rounds, generated_question,
                   rounds_results, qa_inputs, qa_outcomes, dvars, evars, tvars, kvars, gvars>>

\* The head of a round: the question agent is asked; an Error text ends the
\* workflow with a failed record, any other text is submitted to the math
\* agent on the workflow's thread.
AskQuestionAgent ==
    /\ wpc = "loop"
    /\ MoreRounds(round - 1, question_rounds)
    /\ qa_inputs' = Append(qa_inputs, QuestionAgentInput(user_query, current_result))
    /\ \E llm \in LlmOutcomes :
       \E q \in {GenerateQuestionWithQuestionAgent(current_result, llm)} :
          /\ qa_outcomes' = Append(qa_outcomes,
                                    [kind |-> llm.kind, text |-> q.text])
          /\ IF q.exc # "none"
             THEN /\ wret' = WorkflowRaised(q.exc)
                  /\ wpc' = "raised"
                  /\ UNCHANGED <<rounds_results, generated_question, pc, thread_id>>
             ELSE IF StartsWithError(q.text)
             THEN /\ rounds_results' =
                         Append(rounds_results, FailedRound(round, None, q.text))
                  /\ wret' = WorkflowResult(first_result,
                                 Append(rounds_results, FailedRound(round, None, q.text)))
                  /\ wpc' = "returned"
                  /\ UNCHANGED <<generated_question, pc, thread_id>>
             ELSE /\ generated_question' = q.text
                  /\ pc' = "entry"
                  /\ thread_id' = workflow_thread_id
                  /\ wpc' = "answer"
                  /\ UNCHANGED <<rounds_results, wret>>
    /\ UNCHANGED <<impl, is_new_thread, requests, nSleep, waited, stream_result,
                   run_response, run_data, run_id, first_fetch, state_result,
                   run_result, ret, user_query, question_rounds, round,
                   current_result, workflow_thread_id, first_result, calls,
                   dvars, evars, tvars, kvars, gvars>>

\* "answer_result = await self.run_math_agent(generated_question, thread_id)"
\* has returned: the failed record and the end, or the success record and
\* the next round (the return after the last one).
AnswerReturn ==
    /\ wpc = "answer"
    /\ pc = "done"
    /\ calls' = Append(calls, CallSummary(generated_question, workflow_thread_id))
    /\ IF ret.raised # "none"
       THEN /\ wret' = WorkflowRaised(ret.raised)
            /\ wpc' = "raised"
            /\ UNCHANGED rounds_results
       ELSE \E rec \in {IF ret.success
                        THEN SuccessRound(round, generated_question, ret.result)
                        ELSE FailedRound(round, generated_question, ret.error)} :
               /\ rounds_results' = Append(rounds_results, rec)
               /\ IF ret.success /\ MoreRounds(round, question_rounds)
                  THEN wpc' = "loop" /\ UNCHANGED wret
                  ELSE /\ wpc' = "returned"
                       /\ wret' = WorkflowResult(first_result,
                                                 Append(rounds_results, rec))
    /\ current_result' = IF ret.success
                          THEN NextResult(current_result, ret.result)
                          ELSE current_result
    /\ round' = IF ret.success THEN round + 1 ELSE round
    /\ CallLocalsReset
    /\ UNCHANGED <<impl, user_query, question_rounds, workflow_thread_id,
                   first_result, generated_question, qa_inputs, qa_outcomes,
                   dvars, evars, tvars, kvars, gvars>>

WorkflowNext ==
    \/ MathAgentStep
    \/ FirstStageReturn
    \/ AskQuestionAgent
    \/ AnswerReturn

SpecWorkflow == WorkflowInit /\ [][WorkflowNext]_vars

----------------------------------------------------------------------------
\* Properties of the message extractor, checked under SpecExtractor.

\* Entry i is an "ai" entry, in the attribute form or the mapping form.
IsAi(i) == messages[i].type = "ai"

HasAi == \E i \in 1..Len(messages) : IsAi(i)

LastAi == CHOOSE i \in 1..Len(messages) :
              IsAi(i) /\ \A j \in (i + 1)..Len(messages) : ~IsAi(j)

AllSupported == \A i \in 1..Len(messages) : messages[i] \in SupportedEntries

\* The content an entry carries; a mapping without the key carries `none`.
ContentOr(m, none) == IF m.content # Absent THEN <<m.content>> ELSE none

\* C11: for a list with an "ai" entry (attribute or mapping form) the
\* extractor returns the content of the last such entry, whatever follows it
\* (the empty text for an "ai" mapping without a content key).
C11_LastAiContent ==
    (epc # "call" /\ HasAi /\ messages[LastAi] \in SupportedEntries) =>
        /\ epc = "returned"
        /\ extracted.text = ContentOr(messages[LastAi], <<"">>)

C11_Witness ==
    /\ epc = "returned"
    /\ messages = <<Msg("dict", "ai", "a"), Msg("obj", "ai", "b"),
                    Msg("dict", "human", "a")>>
    /\ extracted.text = <<"b">>

\* C12: for a list without an "ai" entry the extractor returns the content
\* of the very last entry whatever its type (its string form when it has no
\* content), and for the empty list exactly "No result generated".
C12_FallbackToLastEntry ==
    (epc # "call" /\ ~HasAi) =>
        /\ epc = "returned"
        /\ extracted.text =
              IF messages = <<>> THEN <<"No result generated">>
              ELSE ContentOr(messages[Len(messages)], PyStr("msg"))

C12_Witness ==
    /\ epc = "returned"
    /\ messages = <<Msg("dict", "human", "a"), Msg("obj", "human", "b"),
                    Msg("dict", Absent, Absent)>>
    /\ extracted.text = PyStr("msg")

\* C13: on a list whose entries all are in a supported representation
\* (objects with type and content, mappings with or without the content
\* key) the extractor never raises: it returns a text.
C13_ExtractorNeverRaises ==
    (epc # "call" /\ AllSupported) =>
        /\ epc = "returned"
        /\ extracted.exc = "none"
        /\ extracted.text # <<>>

C13_Witness ==
    /\ epc = "returned"
    /\ messages = <<Msg("obj", "human", "a"), Msg("dict", "ai", Absent)>>
    /\ extracted.text = <<"">>

\* Every entry is a logical message: it has a type and a content.
AllLogical ==
    \A i \in 1..Len(messages) :
        messages[i].type # Absent /\ messages[i].content # Absent

\* The same logical messages, entry i encoded in the representation reps[i].
Encoded(msgs, reps) ==
    [i \in 1..Len(msgs) |-> Msg(reps[i], msgs[i].type, msgs[i].content)]

\* C31: the extracted text depends on the logical messages only. Encoding
\* each entry as an object or as a mapping, in any mixture, gives the text that
\* the call on the given encoding returned.
C31_RepresentationsAgree ==
    (epc # "call" /\ AllLogical) =>
        /\ epc = "returned"
        /\ \A reps \in [1..Len(messages) -> {"obj", "dict"}] :
              ExtractLastAiMessage(Encoded(messages, reps)) = extracted

\* A call on a mixed list whose last "ai" entry is an object.
C31_Witness ==
    /\ epc = "returned"
    /\ messages = <<Msg("dict", "ai", "a"), Msg("obj", "ai", "b"),
                    Msg("dict", "human", "b")>>
    /\ ExtractLastAiMessage(
           <<Msg("obj", "ai", "a"), Msg("dict", "ai", "b"),
             Msg("obj", "human", "b")>>) = extracted

----------------------------------------------------------------------------
\* Properties of the run coordinator, checked under Spec.

nStream == Count("POST /runs/stream")

nSubmit == Count("POST /runs")

\* The streaming attempt has been made and has failed.
StreamFailed == nStream = 1 /\ ~stream_result.success

\* _run_on_thread has returned (or raised) and the caller goes on.
CoordinatorReturned == pc \in {"finish", "done"}

\* Every streaming request precedes every non-streaming submission.
StreamBeforeSubmit ==
    \A i, j \in 1..Len(requests) :
        requests[i].op = "POST /runs/stream" /\ requests[j].op = "POST /runs"
            => i < j

\* C1: when the streaming attempt fails (error status, exception or zero
\* frames) the polling path is entered exactly once, after it, and the
\* streaming request is never sent a second time.
C1_FallbackExactlyOnce ==
    /\ nStream <= 1
    /\ StreamBeforeSubmit
    /\ StreamFailed =>
          IF pc = "poll_submit" THEN nSubmit = 0 ELSE nSubmit = 1

C1_Witness ==
    /\ pc = "done"
    /\ StreamFailed
    /\ stream_result.error = <<"No data received from stream">>
    /\ nSubmit = 1
    /\ nFetch >= 2

\* The coordinator is in its polling path.
Polling == pc \in {"poll_submit", "poll_loop"}

\* C28: the coordinator streams first and polls only after a failed stream.
\* Before the streaming attempt has ended nothing of the polling path has
\* happened; after a successful one the coordinator has returned the stream's
\* envelope and there is no non-streaming run creation, no thread-state fetch
\* and no sleep in the whole call.
C28_PollingOnlyAfterStreamFailed ==
    /\ Polling => StreamFailed
    /\ pc \in {"entry", "stream"} =>
          nStream = 0 /\ nSubmit = 0 /\ nFetch = 0 /\ nSleep = 0
    /\ (nSubmit > 0 \/ nFetch > 0 \/ nSleep > 0) => StreamFailed
    /\ stream_result.success =>
          /\ CoordinatorReturned
          /\ run_result = stream_result
          /\ nStream = 1 /\ nSubmit = 0 /\ nFetch = 0 /\ nSleep = 0

\* A call whose streaming attempt succeeded has returned.
C28_Witness ==
    /\ pc = "done"
    /\ stream_result.success
    /\ ret.success
    /\ nStream = 1

\* One call under the scheduling of its thread: the code is sequential, so
\* a step that can be taken is taken once the platform has answered and the
\* sleep has returned.
SpecFair == Spec /\ WF_vars(Next)

\* ceil(W / I) for the ceiling W and the interval I.
MaxPolls ==
    (AGENT_MAX_WAIT_TIME + AGENT_CHECK_INTERVAL - 1) \div AGENT_CHECK_INTERVAL

\* The loop's counters: every sleep follows a fetch of the loop and adds I
\* to the counter, which is tested against W before each fetch.
PollingBounded ==
    /\ nSleep <= MaxPolls
    /\ waited = nSleep * AGENT_CHECK_INTERVAL
    /\ waited < AGENT_MAX_WAIT_TIME + AGENT_CHECK_INTERVAL
    /\ nFetch <= MaxPolls + 1
    /\ nFetch = MaxPolls + 1 => (nSleep = MaxPolls /\ CoordinatorReturned)
    /\ (pc = "poll_loop" /\ waited < AGENT_MAX_WAIT_TIME) => nFetch = nSleep

\* C29: whatever the platform answers, the polling loop ends. It makes at
\* most ceil(W/I) fetches and ceil(W/I) sleeps inside the loop and one fetch
\* after it, and the wait counter stays below W + I.
C29_PollingTerminates ==
    /\ []PollingBounded
    /\ (pc = "poll_loop") ~> CoordinatorReturned

\* A call that polled to the ceiling: 15 sleeps, 15 fetches in the loop and
\* the final fetch.
C29_Witness ==
    /\ pc = "done"
    /\ nSleep = MaxPolls
    /\ nFetch = MaxPolls + 1
    /\ waited >= AGENT_MAX_WAIT_TIME

\* C2 as stated: at most one run-submission request, streaming or not, is
\* sent in one call, on every path.
C2_AtMostOneSubmission == nStream + nSubmit <= 1

\* C2 as amended: at most one streaming and at most one non-streaming
\* submission are sent, the second only after the first has failed; the only
\* request ever repeated is the thread-state fetch.
C2_SubmissionsNeverRepeated ==
    /\ nStream <= 1
    /\ nSubmit <= 1
    /\ nSubmit = 1 => StreamFailed
    /\ \A i, j \in 1..Len(requests) :
          i < j /\ requests[i].op = requests[j].op
              => requests[i].op = "GET /state"

C2_Witness ==
    /\ pc = "done"
    /\ nStream = 1
    /\ nSubmit = 1
    /\ nFetch >= 3
    /\ ret.success

\* The `next` field of a fetched state document is absent or empty.
NextAbsentOrEmpty(fetch) ==
    /\ ShapeOf(fetch.result).kind \in {"dict", "list"}
    /\ ShapeOf(fetch.result).next \in {Absent, "empty"}

\* The `next` field of a fetched state document is a non-empty list.
NextNonEmpty(fetch) ==
    /\ ShapeOf(fetch.result).kind = "dict"
    /\ ShapeOf(fetch.result).next = "pending"

\* The polling path returned success without the timeout warning.
NormalCompletion ==
    /\ CoordinatorReturned
    /\ nSubmit = 1
    /\ run_result.raised = "none"
    /\ run_result.success
    /\ ~run_result.warning

\* C3: normal completion is reported only for a successfully fetched state
\* whose `next` is absent or empty, that state being the result; and a step
\* of the loop that fetches a state with a non-empty `next` below the ceiling
\* sleeps one interval and stays in the loop, whose next step is a fetch.
C3_CompletionOnlyWithoutNext ==
    /\ [](NormalCompletion =>
            /\ state_result.success
            /\ NextAbsentOrEmpty(state_result)
            /\ run_result.result = state_result.result)
    /\ [][ /\ pc = "poll_loop" =>
                /\ Len(requests') = Len(requests) + 1
                /\ requests'[Len(requests')].op = "GET /state"
           /\ (pc = "poll_loop" /\ waited < AGENT_MAX_WAIT_TIME
                 /\ state_result'.success /\ NextNonEmpty(state_result')) =>
                /\ nSleep' = nSleep + 1
                /\ waited' = waited + AGENT_CHECK_INTERVAL
                /\ pc' = "poll_loop" ]_vars

C3_Witness ==
    /\ pc = "done"
    /\ NormalCompletion
    /\ first_fetch.success
    /\ NextNonEmpty(first_fetch)
    /\ nSleep >= 1
    /\ state_result.success
    /\ NextAbsentOrEmpty(state_result)

\* C4: when the first state fetch succeeds with `next` absent or empty, the
\* poll ends there: one fetch, no sleep, and the success envelope without
\* warning carrying that state.
C4_FirstFetchCompletes ==
    (nFetch >= 1 /\ first_fetch.success /\ NextAbsentOrEmpty(first_fetch)) =>
        /\ nFetch = 1
        /\ nSleep = 0
        /\ waited = 0
        /\ NormalCompletion
        /\ run_result.result = first_fetch.result

C4_Witness ==
    /\ pc = "done"
    /\ nFetch = 1
    /\ nSleep = 0
    /\ first_fetch.success
    /\ ShapeOf(first_fetch.result).next = "empty"
    /\ ret.success

\* The loop has ended on its ceiling.
CeilingReached == ~(waited < AGENT_MAX_WAIT_TIME)

\* C5: once the ceiling is reached exactly one more state fetch is made (the
\* loop made one per sleep), and the coordinator returns success with the
\* timeout warning and the state fetched last as result (the run-creation
\* data when that fetch failed); the warning is given in no other case, and
\* no failure envelope comes out of a timeout.
C5_TimeoutIsBestEffortSuccess ==
    /\ (pc = "poll_loop" /\ CeilingReached) => nFetch = nSleep
    /\ (CoordinatorReturned /\ CeilingReached) =>
          /\ nFetch = nSleep + 1
          /\ requests[Len(requests)].op = "GET /state"
          /\ waited = nSleep * AGENT_CHECK_INTERVAL
          /\ run_result.raised = "none"
          /\ run_result.success
          /\ run_result.warning
          /\ run_result.result =
                IF state_result.success THEN state_result.result ELSE run_data
    /\ run_result.warning => CeilingReached

C5_Witness ==
    /\ pc = "done"
    /\ CeilingReached
    /\ run_result.warning
    /\ state_result.success
    /\ run_result.result = state_result.result
    /\ ret.success

\* The run-creation request was answered with the success status and a JSON
\* body that holds no run id.
RunCreatedWithoutId ==
    /\ run_response.kind = "response"
    /\ run_response.status = HTTP_SUCCESS_STATUS
    /\ ParseBody(run_response.body).exc = "none"
    /\ ShapeOf(ParseBody(run_response.body).value).run_id \in {Absent, "null"}

\* C6: a run-creation answer with the success status and no run id ends the
\* call with a failure envelope at once: no state fetch, no sleep and no
\* second submission follow.
C6_NoRunIdIsTerminal ==
    RunCreatedWithoutId =>
        /\ CoordinatorReturned
        /\ ~run_result.success
        /\ ~run_result.warning
        /\ ShapeOf(ParseBody(run_response.body).value).kind = "dict" =>
              /\ run_result.raised = "none"
              /\ run_result.error = <<"No run_id returned from the API">>
        /\ nFetch = 0
        /\ nSleep = 0
        /\ nSubmit = 1
        /\ requests[Len(requests)].op = "POST /runs"
        /\ pc = "done" => ~ret.success

C6_Witness ==
    /\ pc = "done"
    /\ run_response = Response(HTTP_SUCCESS_STATUS, <<"{}">>)
    /\ ~ret.success
    /\ ret.error = <<"Failed to run math agent: ", "No run_id returned from the API">>
    /\ nFetch = 0

\* The payload being normalised once the call has returned on a successful
\* run.
Payload == ShapeOf(run_result.result)

Normalized ==
    pc = "done" /\ run_result.raised = "none" /\ run_result.success

Answer(msgs) == ExtractLastAiMessage(msgs).text

\* C10 as stated: a dict payload without `error` and without
\* `values.messages` but with `assistant.messages` is answered by the
\* extractor over `assistant.messages`.
C10_AssistantAfterValuesMessages ==
    (Normalized /\ Payload.kind = "dict" /\ ~Payload.error
        /\ Payload.values # "msgs" /\ Payload.assistant = "msgs") =>
        /\ ret.success
        /\ ret.result = Answer(Payload.assistantMsgs)

\* C10 as amended: the shapes are told apart by their top-level keys, in the
\* order `error`, `values`, `assistant`: a payload with `error` gives the
\* platform-error text; without `error` but with a `values` object it is
\* answered from `values` alone (the extractor over `values.messages`, or
\* the string form of `values` when that has no messages); only a payload
\* with neither `error` nor `values` is answered by the extractor over
\* `assistant.messages`; a non-empty list by its last element; anything else
\* by its string form.
C10_PrecedenceByTopLevelKey ==
    Normalized =>
        /\ (Payload.kind = "dict" /\ Payload.error) =>
              ret.success /\ Head(ret.result) = "Platform error: "
        /\ (Payload.kind = "dict" /\ ~Payload.error /\ Payload.values = "msgs") =>
              ret.success /\ ret.result = Answer(Payload.valuesMsgs)
        /\ (Payload.kind = "dict" /\ ~Payload.error /\ Payload.values = "nomsgs") =>
              ret.success /\ ret.result = PyStr("values")
        /\ (Payload.kind = "dict" /\ ~Payload.error /\ Payload.values = Absent
              /\ Payload.assistant = "msgs") =>
              ret.success /\ ret.result = Answer(Payload.assistantMsgs)
        /\ (Payload.kind = "dict" /\ ~Payload.error /\ Payload.values = Absent
              /\ Payload.assistant \in {Absent, "nomsgs"}) =>
              ret.success /\ ret.result = PyStr(Payload.tok)
        /\ (Payload.kind = "list" /\ Payload.last = "msgs") =>
              ret.success /\ ret.result = Answer(Payload.lastMsgs)
        /\ (Payload.kind = "list" /\ Payload.last = "nomsgs") =>
              ret.success /\ ret.result = PyStr("last_item")
        /\ (Payload.kind = "scalar" \/ (Payload.kind = "list" /\ Payload.last = Absent)) =>
              ret.success /\ ret.result = PyStr(Payload.tok)

C10_Witness ==
    /\ Normalized
    /\ run_result.result = <<"{values:{},assistant.messages}">>
    /\ ret.success
    /\ ret.result = PyStr("values")

----------------------------------------------------------------------------
\* Properties of the stream decoder, checked under SpecDecoder.

\* What the decoder left behind: normal return with its frames, or an
\* exception (the caller turns it into a failed stream attempt).
DecoderOutcome ==
    [ok |-> dpc = "returned",
     frames |-> IF dpc = "returned" THEN stream_data ELSE <<>>,
     exc |-> exc]

\* C7: chunk-boundary invariance -- however the body is split into non-empty
\* chunks, the decoder ends with the frames and the outcome it has when the
\* body arrives as one chunk.
C7_ChunkBoundaryInvariance ==
    dpc # "reading" =>
        DecoderOutcome =
            ProcessStreamResponse(IF stream = <<>> THEN <<>> ELSE <<stream>>)

\* A complete line that is a data line with a parseable, non-empty,
\* non-[DONE] remainder, and the JSON value it carries.
IsDataLine(raw) == StartsWith(Strip(raw), STREAM_DATA_PREFIX)

Remainder(raw) == Drop(Strip(raw), Len(STREAM_DATA_PREFIX))

IsFrameLine(raw) ==
    /\ IsDataLine(raw)
    /\ Remainder(raw) # <<>>
    /\ Remainder(raw) # STREAM_DONE_MARKER
    /\ JsonLoads(Remainder(raw)).ok

\* The newline-terminated lines of a body.
CompleteLines(bytes) ==
    LET lines == SplitLines(Utf8Decode(bytes).text)
    IN  SubSeq(lines, 1, Len(lines) - 1)

RECURSIVE FramesOfLines(_)
FramesOfLines(lines) ==
    IF lines = <<>> THEN <<>>
    ELSE (IF IsFrameLine(Head(lines))
          THEN <<JsonLoads(Remainder(Head(lines))).value>> ELSE <<>>)
         \o FramesOfLines(Tail(lines))

ExpectedFrames(bytes) == FramesOfLines(CompleteLines(bytes))

\* The body with its [DONE] lines, empty data lines and unparseable data
\* lines taken out, terminators included.
RECURSIVE KeepFrameAndPlainLines(_)
KeepFrameAndPlainLines(lines) ==
    IF lines = <<>> THEN <<>>
    ELSE (IF IsDataLine(Head(lines)) /\ ~IsFrameLine(Head(lines))
          THEN <<>> ELSE <<Head(lines) \o NL>>)
         \o KeepFrameAndPlainLines(Tail(lines))

WithoutSkippedLines(text) ==
    LET lines == SplitLines(text)
    IN  Flatten(KeepFrameAndPlainLines(SubSeq(lines, 1, Len(lines) - 1)))
        \o lines[Len(lines)]

\* C8: a [DONE] line and an empty data line never give a frame, and an
\* unparseable data line is skipped: nothing is raised for it, and the frames
\* returned are those of the body with all such lines deleted.
C8_SkippedLinesLeaveNoTrace ==
    /\ exc # "JSONDecodeError"
    /\ \A i \in 1..Len(stream_data) :
          stream_data[i] # STREAM_DONE_MARKER /\ stream_data[i] # <<>>
    /\ dpc = "returned" =>
          stream_data =
              ExpectedFrames(WithoutSkippedLines(Utf8Decode(stream).text))

C8_Witness ==
    /\ dpc = "returned"
    /\ stream = PieceFrame1 \o PieceBadJson \o PieceFramePadded
    /\ stream_data = << <<"1">>, <<"2">> >>

\* The text after the last newline of a body: what the buffer holds when
\* the zero-length read comes.
UnterminatedTail(bytes) ==
    LET lines == SplitLines(Utf8Decode(bytes).text) IN lines[Len(lines)]

\* C34: at the close of the stream the carry-over is dropped. The returned
\* frames are those the decoder had before the zero-length read, a last line
\* without its newline gives none even when it is a well-formed data line,
\* and the same body with the newline added gives that one frame more.
C34_UnterminatedLineDropped ==
    dpc = "returned" =>
        /\ buffer = UnterminatedTail(stream)
        /\ stream_data =
               ExpectedFrames(SubSeq(stream, 1, Len(stream) - Len(buffer)))
        /\ IsFrameLine(buffer) =>
               ExpectedFrames(stream \o NL) =
                   Append(stream_data, JsonLoads(Remainder(buffer)).value)

\* A body of one terminated frame line and one unterminated one returned
\* the first frame alone.
C34_Witness ==
    /\ dpc = "returned"
    /\ stream = PieceFrame1 \o PieceUnterminated
    /\ buffer = PieceUnterminated
    /\ IsFrameLine(buffer)
    /\ stream_data = << <<"1">> >>

\* C9: the frames are exactly the values of the complete frame lines, in
\* stream order and once each -- of the bytes read so far while reading, of
\* the whole body on return -- and no read follows the zero-length read.
C9_FramesOnceInOrder ==
    /\ dpc = "reading" => stream_data = ExpectedFrames(SubSeq(stream, 1, pos))
    /\ dpc = "returned" => stream_data = ExpectedFrames(stream)
    /\ nZeroReads <= 1
    /\ nZeroReads = 1 <=> dpc = "returned"

C9_Witness ==
    /\ dpc = "returned"
    /\ stream = PieceFrame1 \o PieceFrame1 \o PieceUnterminated
    /\ stream_data = << <<"1">>, <<"1">> >>
    /\ Len(stream) > 2 * MaxChunk


----------------------------------------------------------------------------
\* Properties of the workflow, checked under SpecWorkflow.

IsFailed(rec) == rec.error # None

SomeRoundFailed ==
    \E k \in 1..Len(rounds_results) : IsFailed(rounds_results[k])

LeadsWithError(text) == text # <<>> /\ Head(text) \in ErrorFragments

\* C14: the round sequence is a prefix. Records are numbered 1, 2, ... in
\* order, only the last one can be a failed record, a text that starts with
\* "Error" is never submitted as a question nor recorded as one, and once a
\* failed record exists the workflow has returned that sequence and nothing
\* more happens: no question generation, no call of the math agent, no
\* request, no further record.
C14_RoundsArePrefix ==
    /\ [](/\ Len(rounds_results) <= question_rounds
          /\ \A k \in 1..Len(rounds_results) :
                /\ rounds_results[k].round = k
                /\ k < Len(rounds_results) => ~IsFailed(rounds_results[k])
                /\ IsFailed(rounds_results[k]) <=> rounds_results[k].answer = None
                /\ ~LeadsWithError(rounds_results[k].generated_question)
          /\ wpc = "answer" => ~LeadsWithError(generated_question)
          /\ SomeRoundFailed =>
                /\ wpc = "returned"
                /\ pc = "idle"
                /\ wret.question_rounds = rounds_results
                /\ wret.total_question_rounds = Len(rounds_results))
    /\ [][SomeRoundFailed =>
             UNCHANGED <<qa_inputs, calls, requests, rounds_results, wret>>]_vars

\* Three rounds were asked for and the question agent failed in round 2: two
\* records, the second one failed, the question agent asked twice.
C14_Witness ==
    /\ question_rounds = 3
    /\ wpc = "returned"
    /\ Len(rounds_results) = 2
    /\ ~IsFailed(rounds_results[1])
    /\ IsFailed(rounds_results[2])
    /\ rounds_results[2].generated_question = None
    /\ Len(qa_inputs) = 2
    /\ Len(calls) = 2
    /\ wret.total_question_rounds = 2

\* The first call of run_math_agent has returned a failure envelope.
FirstStageFailed == Len(calls) >= 1 /\ ~first_result.success

\* C15: when the first stage fails the workflow has returned at once: the
\* returned dict has a top-level error made from the stage's error, no first
\* result and an empty round sequence; the question agent was never asked
\* and the math agent was called exactly once.
C15_FirstStageFailureReturnsAtOnce ==
    FirstStageFailed =>
        /\ wpc = "returned"
        /\ pc = "idle"
        /\ wret.returned
        /\ wret.error = <<"First math agent failed: ">> \o first_result.error
        /\ wret.step1_math_result = None
        /\ wret.question_rounds = <<>>
        /\ rounds_results = <<>>
        /\ qa_inputs = <<>>
        /\ Len(calls) = 1

\* The first stage failed because the run failed on the stream and on the
\* poll, with rounds asked for.
C15_Witness ==
    /\ FirstStageFailed
    /\ question_rounds >= 1
    /\ Head(first_result.error) = "Failed to run math agent: "
    /\ calls[1].run_threads # {}
    /\ wret.returned

\* The run-submission requests of the call in progress.
RunThreadsInProgress ==
    {requests[i].thread : i \in
        {k \in 1..Len(requests) :
            requests[k].op \in {"POST /runs/stream", "POST /runs"}}}

\* C16: one workflow sends exactly one thread-creation request, in its first
\* call of run_math_agent; every run of every later call is submitted on the
\* thread the first stage returned, which is a thread id; and a call creates
\* a thread only when it was made without a thread id.
C16_OneThreadPerWorkflow ==
    /\ \A k \in 1..Len(calls) :
          /\ calls[k].creates = (IF k = 1 THEN 1 ELSE 0)
          /\ calls[k].creates > 0 => calls[k].thread_arg = NoThread
          /\ k >= 2 => /\ calls[k].thread_arg # NoThread
                       /\ calls[k].run_threads \subseteq {first_result.thread_id}
    /\ wpc = "answer" =>
          /\ Count("POST /threads") = 0
          /\ RunThreadsInProgress \subseteq {first_result.thread_id}

\* An envelope of run_math_agent: a success with a result, or a failure with
\* an error text.
IsEnvelope(r) ==
    /\ r.raised = "none"
    /\ r.success \in BOOLEAN
    /\ ~r.success => r.error # <<>> /\ r.result = <<>>

\* C17: no public operation is left by an exception. A finished call of
\* run_math_agent holds an envelope, the question agent's outcome is always
\* a text (the workflow is never left at the question agent's call), the
\* workflow is never left by an exception, a call in progress is at one of
\* the coordinator's steps, and between two calls the only states in which
\* nothing more can happen are those where the workflow has returned its
\* dict.
C17_NoOperationRaises ==
    /\ ret.raised = "none"
    /\ pc = "done" => IsEnvelope(ret)
    /\ wpc # "raised"
    /\ wret.raised = "none"
    /\ wpc = "returned" => wret.returned /\ pc = "idle"
    /\ wpc \in {"first_stage", "answer"} =>
          pc \in {"entry", "stream", "poll_submit", "poll_loop", "finish", "done"}
    /\ (pc \in {"idle", "done"} /\ ~(ENABLED WorkflowNext)) => wpc = "returned"

\* A call of run_math_agent in which the normalisation of the payload raised,
\* returned as a failure envelope, in a round of a workflow.
C17_Witness ==
    /\ wpc = "answer"
    /\ pc = "done"
    /\ run_result.success
    /\ ~ret.success
    /\ ret = ExceptReturn(NormalizeResult(run_result.result).exc, thread_id)
    /\ IsEnvelope(ret)

----------------------------------------------------------------------------
\* Properties of the connections, checked under Spec (both classes).

OpenConnections == {i \in 1..Len(requests) : requests[i].open}

\* C18: every connection carries one request and is closed when the method
\* that opened it is left, whatever the path. The connections of create
\* thread, get thread state and the streaming run are closed in every state
\* between two steps; the connection of the run creation is closed too,
\* except in DualAgentSystem while _run_on_thread, which opened it, is still
\* polling; and none is open once the run coordinator or the public
\* operation has returned.
C18_ConnectionsReleased ==
    /\ \A i \in OpenConnections :
          /\ impl = "DualAgentSystem"
          /\ requests[i].op = "POST /runs"
          /\ pc = "poll_loop"
    /\ pc \in {"finish", "done"} => OpenConnections = {}

\* A call of DualAgentSystem that polled up to the ceiling and whose last
\* fetch was left by an exception has returned: stream, run creation and
\* fetch connections were used and all are closed.
C18_Witness ==
    /\ impl = "DualAgentSystem"
    /\ pc = "done"
    /\ Count("POST /runs/stream") = 1
    /\ Count("POST /runs") = 1
    /\ nFetch >= 2
    /\ ~state_result.success
    /\ Head(state_result.error) = "Exception getting thread state: "
    /\ OpenConnections = {}

\* C20: thread creation is taken for a success only when it gave a thread
\* identifier, so the call goes on to its run with a thread id and no run
\* request is sent on the null thread id.
C20_RunOnlyOnThreadId ==
    /\ is_new_thread => thread_id # NoThread
    /\ \A i \in 1..Len(requests) :
          requests[i].op \in {"POST /runs/stream", "POST /runs"}
              => requests[i].thread # NoThread

----------------------------------------------------------------------------
\* Properties of the transport operations, checked under SpecTransport.

\* The failure an answer of the platform stands for: a network exception, a
\* status outside 2xx, a malformed JSON body under the success status.
FailureKind(op, resp) ==
    IF resp.kind = "exception" THEN "network exception"
    ELSE IF resp.status < 200 \/ resp.status > 299 THEN "status"
    ELSE IF op # "submit_run_stream" /\ resp.status = HTTP_SUCCESS_STATUS
            /\ ParseBody(resp.body).exc # "none" THEN "malformed body"
    ELSE "none"

\* str(e) of the exceptions, the part of an error text the code does not
\* choose.
ExceptionTexts ==
    {"exception", "JSONDecodeError", "UnicodeDecodeError", "AttributeError"}

\* The error text without the exception's own message.
ErrorKind(error) == SelectSeq(error, LAMBDA f : f \notin ExceptionTexts)

\* C19: an operation that met a failure returns a failure envelope whose
\* error text, the exception's own message left aside, differs from the one
\* it returns for either of the other two kinds of failure; the text of a
\* status failure holds the status; and one request was sent.
C19_DistinctTransportErrors ==
    (tpc = "returned" /\ FailureKind(transport_op, transport_response) # "none") =>
        /\ ~transport_envelope.success
        /\ Len(requests) = 1
        /\ FailureKind(transport_op, transport_response) = "status" =>
              \E i \in 1..Len(transport_envelope.error) :
                 transport_envelope.error[i] = StatusText(transport_response)
        /\ \A other \in TransportAnswers(transport_op) :
              FailureKind(transport_op, other)
                  \notin {"none", FailureKind(transport_op, transport_response)}
              => ErrorKind(TransportCall(impl, transport_op, other).error)
                     # ErrorKind(transport_envelope.error)

\* The streaming operation has returned on a response with the success
\* status: its body was handed to the decoder.
StreamDecoded ==
    /\ tpc = "returned"
    /\ transport_op = "submit_run_stream"
    /\ transport_response.kind = "response"
    /\ transport_response.status = HTTP_SUCCESS_STATUS

\* What the decoder made of the body: the frames, if it reached the
\* zero-length read that closes the stream.
DecodedStream == ProcessStreamResponse(transport_response.chunks)

\* C30: a streaming attempt succeeds exactly when its stream was read to
\* the close with at least one frame decoded, and its result is then the last
\* frame; a stream read to the close without a frame is the failure
\* "No data received from stream".
C30_SuccessIffFrameDecoded ==
    (tpc = "returned" /\ transport_op = "submit_run_stream") =>
        /\ transport_envelope.success =>
              StreamDecoded /\ DecodedStream.ok /\ DecodedStream.frames # <<>>
        /\ (StreamDecoded /\ DecodedStream.ok) =>
              IF DecodedStream.frames # <<>>
              THEN /\ transport_envelope.success
                   /\ transport_envelope.result =
                          DecodedStream.frames[Len(DecodedStream.frames)]
              ELSE /\ ~transport_envelope.success
                   /\ transport_envelope.error = <<"No data received from stream">>

\* An attempt that succeeded on a stream of two different frames.
C30_Witness ==
    /\ StreamDecoded
    /\ DecodedStream.ok
    /\ Len(DecodedStream.frames) = 2
    /\ DecodedStream.frames[1] # DecodedStream.frames[2]
    /\ transport_envelope.success

----------------------------------------------------------------------------
\* Properties of the question agent inside the workflow, checked under
\* SpecWorkflow.

\* The math result the workflow holds when round k starts.
ResultBeforeRound(k) ==
    IF k = 1 THEN first_result.result ELSE rounds_results[k - 1].answer

\* C21: every invocation of the question agent gets two keys only, the math
\* result current at that round and an empty message list. The input is a
\* function of the math results alone: the workflow's query, which differs
\* between behaviours, is no part of it.
C21_QuestionAgentIsolated ==
    \A k \in 1..Len(qa_inputs) :
        /\ DOMAIN qa_inputs[k] = {"first_agent_result", "messages"}
        /\ qa_inputs[k].messages = <<>>
        /\ qa_inputs[k].first_agent_result = ResultBeforeRound(k)

\* The question agent was asked in two rounds of a workflow started with the
\* second query.
C21_Witness ==
    /\ user_query = <<"Calculate 10 * 20">>
    /\ Len(qa_inputs) = 2
    /\ Len(rounds_results) >= 1
    /\ qa_inputs[2].first_agent_result = rounds_results[1].answer

\* The model invocation of round k failed: the model raised while a
\* question was asked for a non-empty result, or the graph's invocation raised.
ModelInvocationFailed(k) ==
    \/ qa_outcomes[k].kind = "graph_exception"
    \/ /\ qa_outcomes[k].kind = "exception"
       /\ ~IsEmptyText(qa_inputs[k].first_agent_result)

\* C24: a failed model invocation never leaves the workflow as an exception.
\* It comes back as a text that starts with "Error", and the workflow records
\* round k as failed under that text, with no question and no answer.
C24_ModelFailureBecomesErrorText ==
    \A k \in 1..Len(qa_outcomes) :
        ModelInvocationFailed(k) =>
            /\ wpc = "returned"
            /\ wret.returned /\ wret.raised = "none"
            /\ Len(rounds_results) = k
            /\ rounds_results[k].round = k
            /\ rounds_results[k].generated_question = None
            /\ rounds_results[k].answer = None
            /\ Head(rounds_results[k].error) \in
                   {"Error generating question: ", "Error in question agent: "}
            /\ wret.question_rounds = rounds_results

\* The model raised in the second round, after a first round that went well.
C24_Witness ==
    /\ Len(qa_outcomes) = 2
    /\ qa_outcomes[2].kind = "exception"
    /\ ModelInvocationFailed(2)
    /\ ~IsFailed(rounds_results[1])
    /\ IsFailed(rounds_results[2])

\* Every call of run_math_agent made so far returned success, and every
\* question generation so far gave a text that is a question.
AllSucceeded ==
    /\ \A c \in 1..Len(calls) : calls[c].success
    /\ \A k \in 1..Len(qa_outcomes) :
          qa_outcomes[k].kind = "text" /\ ~LeadsWithError(qa_outcomes[k].text)

\* The platform behaved normally: the answer of every successful call so far
\* carried a text.
AnswersCarryText ==
    /\ first_result.success => ~IsEmptyText(first_result.result)
    /\ \A k \in 1..Len(rounds_results) :
          rounds_results[k].error = None => ~IsEmptyText(rounds_results[k].answer)

C32_ResultsChained ==
    /\ \A k \in 1..Len(qa_inputs) :
          qa_inputs[k].first_agent_result = ResultBeforeRound(k)
    /\ \A c \in 1..Len(calls) :
          calls[c].query = IF c = 1 THEN user_query ELSE qa_outcomes[c - 1].text
    /\ wpc = "answer" =>
          /\ Len(qa_outcomes) = round
          /\ generated_question = qa_outcomes[round].text
    /\ \A k \in 1..Len(rounds_results) :
          rounds_results[k].generated_question # None =>
              rounds_results[k].generated_question = qa_outcomes[k].text
    /\ wpc = "loop" => current_result = ResultBeforeRound(round)

\* Three calls of the math agent were made: the second round's question was
\* generated from the first round's answer and submitted.
C32_Witness ==
    /\ Len(calls) = 3
    /\ Len(rounds_results) = 2
    /\ ~IsFailed(rounds_results[2])
    /\ qa_inputs[2].first_agent_result = rounds_results[1].answer
    /\ calls[3].query = qa_outcomes[2].text

\* The workflow under the scheduling of its coroutine: nothing else runs in
\* it, so a step that can be taken is taken once the platform or the model
\* has answered.
WorkflowFairInit == WorkflowInit /\ question_rounds <= MaxFairRounds

SpecWorkflowFair ==
    WorkflowFairInit /\ [][WorkflowNext]_vars /\ WF_vars(WorkflowNext)

\* The workflow is over: it returned, or an exception left it.
WorkflowOver == wpc \in {"returned", "raised"}

\* The work done so far, against the rounds asked for: question generations,
\* calls of run_math_agent (finished ones and the one in progress), and the
\* requests of the call in progress.
WorkBounded ==
    /\ Len(qa_inputs) <= question_rounds
    /\ Len(calls) + (IF wpc \in {"first_stage", "answer"} THEN 1 ELSE 0)
           <= question_rounds + 1
    /\ nStream <= 1
    /\ nSubmit <= 1
    /\ nSleep <= MaxPolls
    /\ nFetch <= MaxPolls + 1

\* C33: every workflow ends, and for rounds = N it asks the question agent at
\* most N times and runs the math agent at most N + 1 times, each run with at
\* most one streaming attempt and one polling attempt of bounded length.
C33_WorkflowTerminates ==
    /\ []WorkBounded
    /\ <>WorkflowOver

\* A workflow that returned after all its rounds, with as many question
\* generations and one more run than rounds.
C33_Witness ==
    /\ wpc = "returned"
    /\ question_rounds = MaxFairRounds
    /\ Len(qa_inputs) = question_rounds
    /\ Len(calls) = question_rounds + 1
    /\ ~SomeRoundFailed

----------------------------------------------------------------------------
\* Several run_dual_agents coroutines gathered on one asyncio event loop.
\* The loop has one thread. A task runs on it from the point where it is
\* scheduled to its next await of something unfinished. run_math_agent is an
\* "async def" without any await: its requests go through http.client and its
\* polling loop waits in time.sleep, so the thread is kept through all of them.
\* The one await of an unfinished awaitable is the question agent's ainvoke.

Tasks == {"a", "b"}

\* thread_id None
NullThread == 0

\* A task that asyncio.gather created for run_dual_agents(query, rounds).
TaskInit(rounds) ==
    [pc |-> "pending", question_rounds |-> rounds, round |-> 0,
     thread_id |-> NullThread, call_thread |-> NullThread, waited |-> 0,
     targets |-> {}, created |-> {}]

\* run_math_agent's "if thread_id is None".
CallEntry(tid) == IF tid = NullThread THEN "create_thread" ELSE "stream_read"

\* The for loop of the workflow: the next question, or the return.
NextRound(t) ==
    IF t.round < t.question_rounds
    THEN [t EXCEPT !.pc = "ainvoke", !.round = t.round + 1]
    ELSE [t EXCEPT !.pc = "done"]

\* thread_id = first_result["thread_id"], once, after the first stage.
KeepThread(t) ==
    IF t.round = 0 THEN [t EXCEPT !.thread_id = t.call_thread] ELSE t

\* The locals of _run_on_thread end with the call.
CallOver(t) == [t EXCEPT !.waited = 0, !.call_thread = NullThread]

\* run_math_agent returned to the workflow with "success" ok.
AfterCall(t, ok) ==
    IF ok THEN CallOver(NextRound(KeepThread(t)))
    ELSE CallOver([t EXCEPT !.pc = "done"])

\* The task the loop's thread executes after task i's step: i itself
\* unless i awaits the question agent's graph or has returned.
RunningAfter(i, t) == IF t.pc \in {"ainvoke", "done"} THEN "none" ELSE i

\* A request of run_math_agent on its thread_id.
Targeting(t) == [t EXCEPT !.targets = t.targets \cup {t.call_thread}]

EventLoopInit ==
    /\ loop_running = "none"
    /\ tasks \in [Tasks -> {TaskInit(n) : n \in 0..MaxRounds}]
    /\ platform_threads = 0
    /\ CoordinatorIdle
    /\ ExtractorIdle
    /\ WorkflowIdle
    /\ TransportIdle
    /\ QuestionGraphIdle
    /\ stream = <<>>
    /\ pos = 0
    /\ buffer = <<>>
    /\ stream_data = <<>>
    /\ dpc = "idle"
    /\ exc = "none"
    /\ nZeroReads = 0

\* Task i's step leaves it as t.
TaskBecomes(i, t) ==
    /\ tasks' = [tasks EXCEPT ![i] = t]
    /\ loop_running' = RunningAfter(i, t)

\* The loop takes a task from its ready queue: the workflow's first
\* run_math_agent call starts.
TaskStart(i) ==
    /\ loop_running = "none"
    /\ tasks[i].pc = "pending"
    /\ TaskBecomes(i, [tasks[i] EXCEPT !.pc = CallEntry(NullThread)])
    /\ UNCHANGED <<platform_threads, dvars, cvars, evars, wvars, tvars,
                   gvars>>

\* _create_thread: the platform answers with a new id, with a body that has
\* no thread_id, or with a failure.
TaskCreateThread(i) ==
    /\ loop_running = i
    /\ tasks[i].pc = "create_thread"
    /\ \E answer \in {"id", "no_id", "failure"} :
          /\ platform_threads' =
                 IF answer = "id" THEN platform_threads + 1 ELSE platform_threads
          /\ TaskBecomes(i,
                 IF answer = "failure" THEN AfterCall(tasks[i], FALSE)
                 ELSE IF answer = "no_id"
                      THEN [tasks[i] EXCEPT !.pc = "stream_read",
                                            !.call_thread = NullThread]
                      ELSE [tasks[i] EXCEPT
                               !.pc = "stream_read",
                               !.call_thread = platform_threads + 1,
                               !.created = @ \cup {platform_threads + 1}])
    /\ UNCHANGED <<dvars, cvars, evars, wvars, tvars,
                   gvars>>

\* _run_on_thread_stream: the request and the reads of the body.
TaskStreamRead(i) ==
    /\ loop_running = i
    /\ tasks[i].pc = "stream_read"
    /\ \E ok \in BOOLEAN :
          TaskBecomes(i, IF ok THEN AfterCall(Targeting(tasks[i]), TRUE)
                         ELSE [Targeting(tasks[i]) EXCEPT !.pc = "run_create"])
    /\ UNCHANGED <<platform_threads, dvars, cvars, evars, wvars, tvars,
                   gvars>>

\* _run_on_thread after a failed stream: POST /runs.
TaskRunCreate(i) ==
    /\ loop_running = i
    /\ tasks[i].pc = "run_create"
    /\ \E ok \in BOOLEAN :
          TaskBecomes(i, IF ok THEN [Targeting(tasks[i]) EXCEPT
                                        !.pc = "poll_fetch", !.waited = 0]
                         ELSE AfterCall(Targeting(tasks[i]), FALSE))
    /\ UNCHANGED <<platform_threads, dvars, cvars, evars, wvars, tvars,
                   gvars>>

\* _get_thread_state inside the polling loop.
TaskPollFetch(i) ==
    /\ loop_running = i
    /\ tasks[i].pc = "poll_fetch"
    /\ \E finished \in BOOLEAN :
          TaskBecomes(i, IF finished THEN AfterCall(Targeting(tasks[i]), TRUE)
                         ELSE [Targeting(tasks[i]) EXCEPT !.pc = "poll_sleep"])
    /\ UNCHANGED <<platform_threads, dvars, cvars, evars, wvars, tvars,
                   gvars>>

\* time.sleep(check_interval); waited += check_interval.
TaskPollSleep(i) ==
    /\ loop_running = i
    /\ tasks[i].pc = "poll_sleep"
    /\ TaskBecomes(i, [tasks[i] EXCEPT
           !.waited = @ + AGENT_CHECK_INTERVAL,
           !.pc = IF tasks[i].waited + AGENT_CHECK_INTERVAL < AGENT_MAX_WAIT_TIME
                  THEN "poll_fetch" ELSE "final_fetch"])
    /\ UNCHANGED <<platform_threads, dvars, cvars, evars, wvars, tvars,
                   gvars>>

\* _get_thread_state after the timeout.
TaskFinalFetch(i) ==
    /\ loop_running = i
    /\ tasks[i].pc = "final_fetch"
    /\ TaskBecomes(i, AfterCall(Targeting(tasks[i]), TRUE))
    /\ UNCHANGED <<platform_threads, dvars, cvars, evars, wvars, tvars,
                   gvars>>

\* The graph's ainvoke finishes; the task is back in the ready queue.
QuestionAgentReturns(i) ==
    /\ tasks[i].pc = "ainvoke"
    /\ tasks' = [tasks EXCEPT ![i].pc = "ready"]
    /\ UNCHANGED <<loop_running, platform_threads, dvars, cvars, evars, wvars,
                   tvars, gvars>>

\* The loop resumes the task after the await: an "Error" text ends the
\* workflow, a question starts run_math_agent on the workflow's thread_id.
TaskResume(i) ==
    /\ loop_running = "none"
    /\ tasks[i].pc = "ready"
    /\ \E failed \in BOOLEAN :
          TaskBecomes(i, IF failed THEN [tasks[i] EXCEPT !.pc = "done"]
                         ELSE [tasks[i] EXCEPT
                                  !.call_thread = tasks[i].thread_id,
                                  !.pc = CallEntry(tasks[i].thread_id)])
    /\ UNCHANGED <<platform_threads, dvars, cvars, evars, wvars, tvars,
                   gvars>>

\* What the loop's thread can do for task i.
TaskStep(i) ==
    \/ TaskStart(i)
    \/ TaskCreateThread(i)
    \/ TaskStreamRead(i)
    \/ TaskRunCreate(i)
    \/ TaskPollFetch(i)
    \/ TaskPollSleep(i)
    \/ TaskFinalFetch(i)
    \/ TaskResume(i)

EventLoopNext == \E i \in Tasks : TaskStep(i) \/ QuestionAgentReturns(i)

SpecEventLoop == EventLoopInit /\ [][EventLoopNext]_vars

----------------------------------------------------------------------------
\* Properties of interleaved invocations, checked under SpecEventLoop.

\* Task j has a step to take as soon as the loop's thread gives it one.
WantsLoop(j) == tasks[j].pc \in {"pending", "ready"}

\* C22: while one invocation waits for a stream read or is inside the polling
\* sleep, another invocation of the same event loop that has a step to take
\* can take it.
C22_WaitingSuspendsOnlyCaller ==
    \A i \in Tasks : \A j \in Tasks \ {i} :
        (tasks[i].pc \in {"stream_read", "poll_sleep"} /\ WantsLoop(j))
            => ENABLED (TaskStart(j) \/ TaskResume(j))

\* C23: every run and state request of an invocation targets a thread that
\* this invocation created and no other invocation targets, and after the
\* first stage only the thread id that the first stage returned.
C23_ThreadPerInvocation ==
    \A i \in Tasks :
        /\ tasks[i].targets \subseteq tasks[i].created
        /\ tasks[i].round >= 1 => tasks[i].targets \subseteq {tasks[i].thread_id}
        /\ \A j \in Tasks \ {i} : tasks[i].targets \cap tasks[j].targets = {}

----------------------------------------------------------------------------
\* The question agent's graph: the builder's steps at import, then one
\* invocation of the node function on a state.

START == "__start__"

\* The name the node is registered under.
NodeName == "question_agent"

\* The texts of a state's result keys; an absent key reads as ''.
NodeResults == {<<>>, <<"42">>, <<"-7.5">>}

\* The entries of the state's message list.
NodeEntries ==
    {Msg("dict", "human", <<"q">>), Msg("obj", "ai", <<"42">>),
     Msg("obj", "human", <<"Q">>)}

NodeMessageLists == UNION {[1..k -> NodeEntries] : k \in 0..MaxMessages}

\* What happens inside the node: the model answers or raises (handled in
\* generate_question), run_until_complete raises (handled in the node), or
\* the QuestionAgent constructor raises, which is outside the node's try.
NodeOutcomes ==
    {o \in LlmOutcomes : o.kind # "graph_exception"}
    \cup {[kind |-> "loop_exception", text |-> <<>>],
          [kind |-> "constructor_exception", text |-> <<>>]}

\* state.get('math_result', '') or state.get('first_agent_result', '')
MathResultOf(state) ==
    IF ~IsEmptyText(state.math_result) THEN state.math_result
    ELSE state.first_agent_result

QuestionGraphInit ==
    /\ graph = NoGraph
    /\ gpc = "builder"
    /\ node_state \in [math_result : {<<>>, <<"42">>},
                       first_agent_result : NodeResults,
                       messages : NodeMessageLists]
    /\ node_result = NoNodeResult
    /\ CoordinatorIdle
    /\ ExtractorIdle
    /\ WorkflowIdle
    /\ TransportIdle
    /\ EventLoopIdle
    /\ stream = <<>>
    /\ pos = 0
    /\ buffer = <<>>
    /\ stream_data = <<>>
    /\ dpc = "idle"
    /\ exc = "none"
    /\ nZeroReads = 0

\* question_builder.add_node("question_agent", question_agent_node)
AddNode ==
    /\ gpc = "builder"
    /\ graph' = [graph EXCEPT !.nodes = @ \cup {NodeName}]
    /\ gpc' = "add_edge"
    /\ UNCHANGED <<node_state, node_result, dvars, cvars, evars, wvars, tvars,
                   kvars>>

\* question_builder.add_edge(START, "question_agent")
AddEdge ==
    /\ gpc = "add_edge"
    /\ graph' = [graph EXCEPT !.edges = @ \cup {<<START, NodeName>>}]
    /\ gpc' = "compile"
    /\ UNCHANGED <<node_state, node_result, dvars, cvars, evars, wvars, tvars,
                   kvars>>

\* question_agent_graph = question_builder.compile()
Compile ==
    /\ gpc = "compile"
    /\ graph' = [graph EXCEPT !.compiled = TRUE]
    /\ gpc' = START
    /\ UNCHANGED <<node_state, node_result, dvars, cvars, evars, wvars, tvars,
                   kvars>>

\* An invocation follows the edge that leaves START.
EnterNode ==
    /\ gpc = START
    /\ graph.compiled
    /\ \E n \in graph.nodes :
          /\ <<START, n>> \in graph.edges
          /\ gpc' = n
    /\ UNCHANGED <<graph, node_state, node_result, dvars, cvars, evars, wvars,
                   tvars, kvars>>

\* question_agent_node(state) runs to its return, or to the exception of
\* the constructor.
NodeReturn ==
    /\ gpc = NodeName
    /\ \E o \in NodeOutcomes :
          IF o.kind = "constructor_exception" /\ ~IsEmptyText(MathResultOf(node_state))
          THEN /\ gpc' = "raised"
               /\ UNCHANGED node_result
          ELSE /\ gpc' = "END"
               /\ node_result' =
                      [returned |-> TRUE,
                       messages |-> QuestionAgentNode(node_state.messages,
                                                      MathResultOf(node_state), o)]
    /\ UNCHANGED <<graph, node_state, dvars, cvars, evars, wvars, tvars, kvars>>

QuestionGraphNext == AddNode \/ AddEdge \/ Compile \/ EnterNode \/ NodeReturn

SpecQuestionGraph == QuestionGraphInit /\ [][QuestionGraphNext]_vars

----------------------------------------------------------------------------
\* Properties of the question agent's node and graph, checked under
\* SpecQuestionGraph.

\* The texts the node's new message can hold for a non-empty result: what the
\* model answered, or the Error text of a handler.
NodeTexts ==
    {o.text : o \in {x \in NodeOutcomes : x.kind = "text"}}
    \cup {<<"Error generating question: ", "exception">>}

\* C26: invoked on a state with a non-empty result and the messages M, the
\* node returns M followed by exactly one new message, a HumanMessage that
\* holds the generated question or the Error text; the messages of M are all
\* there, unchanged and in order.
C26_NodeAppendsOneMessage ==
    (node_result.returned /\ ~IsEmptyText(node_state.first_agent_result)) =>
        /\ Len(node_result.messages) = Len(node_state.messages) + 1
        /\ SubSeq(node_result.messages, 1, Len(node_state.messages))
               = node_state.messages
        /\ \E m \in {node_result.messages[Len(node_result.messages)]} :
              /\ m = Msg("obj", "human", m.content)
              /\ m.content \in NodeTexts

\* The node returned on a state that has messages and a result under
\* first_agent_result only.
C26_Witness ==
    /\ node_result.returned
    /\ Len(node_state.messages) = 2
    /\ node_state.math_result = <<>>
    /\ node_state.first_agent_result = <<"42">>
    /\ Len(node_result.messages) = 3

\* C27: the compiled graph has one computation node, it is named
\* "generate_question", and the edge that leaves START enters it.
C27_SingleNodeNamedGenerateQuestion ==
    graph.compiled =>
        /\ graph.nodes = {"generate_question"}
        /\ graph.edges = {<<START, "generate_question">>}

----------------------------------------------------------------------------
\* Platform errors inside a workflow.

PlatformErrorText(text) == text # <<>> /\ Head(text) = "Platform error: "

\* C35: a completion payload with a top-level `error` key is answered by
\* "Platform error: " and its message whatever else the payload holds, and
\* the call reports success; a workflow whose first stage ended that way
\* does not return the first-stage failure: with a round to run it asks the
\* question agent about that text.
C35_PlatformErrorIsSuccess ==
    /\ (Normalized /\ Payload.kind = "dict" /\ Payload.error) =>
          /\ ret.success
          /\ ret.result = <<"Platform error: ", Payload.message>>
    /\ (first_result # NoReturn /\ first_result.success
           /\ PlatformErrorText(first_result.result)) =>
          /\ wret.returned => wret.error = NoKey
          /\ current_result # <<>>
          /\ (question_rounds > 0 /\ wpc = "loop" /\ round = 1) =>
                current_result = first_result.result
          /\ (question_rounds > 0 /\ ~(wpc = "loop" /\ round = 1)) =>
                /\ qa_inputs # <<>>
                /\ qa_inputs[1].first_agent_result = first_result.result

C35_Witness ==
    /\ wpc = "answer"
    /\ round = 1
    /\ first_result.success
    /\ first_result.result = <<"Platform error: ", "boom">>
    /\ qa_inputs[1].first_agent_result = <<"Platform error: ", "boom">>
    /\ calls[1].success

----------------------------------------------------------------------------
\* The question agent asked about an empty result.

NoQuestionText == <<"No question generated by question agent">>

EmptyResultRound(k) ==
    /\ k \in 1..Len(qa_inputs)
    /\ IsEmptyText(qa_inputs[k].first_agent_result)
    /\ qa_outcomes[k].kind # "graph_exception"

\* C36: asked about an empty result, the node returns the messages it was
\* given, whatever the model would have answered, so the generated text is
\* "No question generated by question agent"; that text does not start with
\* "Error", so round k records no failed generation: the text is the query
\* of the round's math-agent call and the question of the round's record.
C36_EmptyResultStillAsked ==
    \A k \in 1..Len(qa_inputs) :
        EmptyResultRound(k) =>
            /\ \A llm \in LlmOutcomes :
                  QuestionAgentNode(qa_inputs[k].messages,
                                    qa_inputs[k].first_agent_result, llm)
                      = qa_inputs[k].messages
            /\ qa_outcomes[k].text = NoQuestionText
            /\ ~StartsWithError(NoQuestionText)
            /\ (wpc = "answer" /\ round = k) => generated_question = NoQuestionText
            /\ Len(calls) >= k + 1 => calls[k + 1].query = NoQuestionText
            /\ Len(rounds_results) >= k =>
                  rounds_results[k].generated_question = NoQuestionText
            /\ (wpc = "returned" /\ Len(qa_inputs) = k) =>
                  Len(rounds_results) = k

C36_Witness ==
    /\ wpc = "returned"
    /\ EmptyResultRound(1)
    /\ first_result.result = <<"">>
    /\ Len(calls) = 2
    /\ calls[2].query = NoQuestionText
    /\ rounds_results[1].generated_question = NoQuestionText
    /\ rounds_results[1].answer # None

----------------------------------------------------------------------------
\* Failed state fetches while polling.

\* A step that fetches the state inside the loop and does not get it.
FailedFetchInLoop ==
    /\ pc = "poll_loop"
    /\ waited < AGENT_MAX_WAIT_TIME
    /\ Len(requests') = Len(requests) + 1
    /\ ~state_result'.success

\* The call returned from the final fetch, and that fetch failed.
FinalFetchFailed ==
    CoordinatorReturned /\ CeilingReached /\ ~state_result.success

\* C37: a state fetch that fails inside the loop does not end the poll: the
\* loop sleeps one interval, counts it, and is at its test again, from where
\* the next step is another fetch; when the fetch made after the ceiling
\* fails too, the result is the run-creation response, reported as success
\* with the timeout warning.
C37_FailedFetchKeepsPolling ==
    /\ [][FailedFetchInLoop =>
            /\ pc' = "poll_loop"
            /\ nSleep' = nSleep + 1
            /\ waited' = waited + AGENT_CHECK_INTERVAL
            /\ requests'[Len(requests')].op = "GET /state"
            /\ UNCHANGED <<run_result, ret>>]_vars
    /\ [](FinalFetchFailed =>
            /\ run_result.success
            /\ run_result.warning
            /\ run_result.result = run_data
            /\ requests[Len(requests)].op = "GET /state"
            /\ pc = "done" => ret.raised = "none")

C37_Witness ==
    /\ pc = "done"
    /\ CeilingReached
    /\ ~first_fetch.success
    /\ ~state_result.success
    /\ nFetch = nSleep + 1
    /\ run_result.warning
    /\ run_result.result = run_data
    /\ ret.success

----------------------------------------------------------------------------
\* The connections of DualAgentSystem's polling fallback.

\* A step that opens a connection and sends its request.
SendsRequest == Len(requests') = Len(requests) + 1

\* The connections open while such a step runs: those left open by the
\* steps before it, and its own.
OpenDuringStep == Cardinality(OpenConnections) + 1

RunCreationOpen ==
    \E i \in 1..Len(requests) :
        /\ OpenConnections = {i}
        /\ requests[i].op = "POST /runs"

\* C38: in DualAgentSystem's polling fallback the run-creation connection is
\* open in every state of the polling loop, every state fetch opens a
\* connection of its own beside it and has closed it when it returns, no
\* step of a call has more than two connections open, and none is open once
\* _run_on_thread has returned.
C38_TwoConnectionsAtMost ==
    /\ []((impl = "DualAgentSystem" /\ pc = "poll_loop") => RunCreationOpen)
    /\ []((impl = "DualAgentSystem" /\ CoordinatorReturned) => OpenConnections = {})
    /\ [][(impl = "DualAgentSystem" /\ SendsRequest) =>
            /\ OpenDuringStep <= 2
            /\ pc = "poll_loop" =>
                  /\ OpenDuringStep = 2
                  /\ requests'[Len(requests')].op = "GET /state"
                  /\ ~requests'[Len(requests')].open]_vars

C38_Witness ==
    /\ impl = "DualAgentSystem"
    /\ pc = "poll_loop"
    /\ nFetch >= 2
    /\ RunCreationOpen
    /\ Cardinality({i \in 1..Len(requests) : ~requests[i].open}) >= 3

----------------------------------------------------------------------------
\* The two coordinators compared.

\* The fields of the public envelope the two classes are compared on.
Compared(r) == <<r.success, r.result, r.thread_id, r.is_new_thread>>

\* The call has returned from its run creation: no state was fetched.
EndedAtRunCreation ==
    /\ pc = "done"
    /\ Count("POST /runs") = 1
    /\ nFetch = 0

\* C39: the two coordinators agree. A call that has come to its run
\* creation has sent the same requests and holds the same thread id in
\* either class; when the call returns from there, the envelope each class
\* builds from the same run-creation answer has the same success flag,
\* result, thread_id and is_new_thread as the one returned.
C39_CoordinatorsAgree ==
    EndedAtRunCreation =>
        \A cls \in Impls :
            Compared(PublicReturn(SubmitRun(cls, run_response).ret,
                                  thread_id, is_new_thread))
                = Compared(ret)

====
